---- MODULE Spec2Model ----
(***************************************************************************)
(* Model of the emotion detection gateway of the Mirage agent:             *)
(*   agent/emotion/detector.py       RateLimiter, EmotionCache,            *)
(*                                   EmotionDetector                       *)
(*   agent/emotion/emotion_config.py categories, valence/arousal table     *)
(*   agent/emotion/session_handler.py one EmotionDetector and one          *)
(*                                   PersonalityAdapter per session        *)
(*   agent/emotion/personality_adapter.py PersonalityAdapter               *)
(*   agent/worker.py                 the handler of committed user speech  *)
(*                                                                         *)
(* Time is counted in whole seconds.  Every float of the code in [0,1] or  *)
(* [-1,1] is represented by the integer 100 times as large (0.8 is 80).    *)
(***************************************************************************)
EXTENDS Integers, Sequences, FiniteSets, TLC

\* ------------------------------------------------------------------------
\* Bounds of the model
\* ------------------------------------------------------------------------
\* value of time.time() when the first session handler is constructed
StartTime == 10
\* the clock runs from StartTime to StartTime + Horizon
Horizon == 4
\* longest time a remote classification takes
MaxRemoteDelay == 1
\* largest number of entries appended to the emotion history of a session
MaxAppends == 11
\* largest number of messages a session handler processes
MaxMessages == 3
\* largest number of detect_emotion calls of a detector suspended at once
MaxInFlight == 2

\* ------------------------------------------------------------------------
\* Configuration (emotion_config.py).  Each value is read from the process
\* environment; the model runs the configuration
\*   EMOTION_RATE_LIMIT_CALLS=2  EMOTION_RATE_LIMIT_WINDOW=3
\*   EMOTION_CACHE_TTL=2         EMOTION_ANALYSIS_INTERVAL=2
\* ------------------------------------------------------------------------
RATE_LIMIT_CALLS == 2
RATE_LIMIT_WINDOW == 3
EMOTION_CACHE_TTL == 2
MIN_ANALYSIS_INTERVAL == 2
\* EMOTION_CONFIDENCE_THRESHOLD, 0.6 by default
CONFIDENCE_THRESHOLD == 60

\* configurations of the rate limit the environment may select
MaxCallsConfigs == 0..RATE_LIMIT_CALLS

EMOTION_CATEGORIES ==
    {"happy", "sad", "angry", "anxious", "neutral", "excited", "confused", "frustrated"}

EMOTION_VALENCE_AROUSAL ==
    [happy      |-> [valence |-> 80,  arousal |-> 60],
     excited    |-> [valence |-> 90,  arousal |-> 90],
     sad        |-> [valence |-> -70, arousal |-> 30],
     anxious    |-> [valence |-> -50, arousal |-> 80],
     angry      |-> [valence |-> -80, arousal |-> 90],
     frustrated |-> [valence |-> -60, arousal |-> 70],
     confused   |-> [valence |-> -30, arousal |-> 50],
     neutral    |-> [valence |-> 0,   arousal |-> 50]]

\* mutant: the default is returned for every label
get_valence_arousal_default(emotion) == [valence |-> 0, arousal |-> 50]

get_valence_arousal(emotion) ==
    IF emotion \in DOMAIN EMOTION_VALENCE_AROUSAL
    THEN EMOTION_VALENCE_AROUSAL[emotion]
    ELSE [valence |-> 0, arousal |-> 50]

is_valid_emotion(v) == v.tag = "str" /\ v.s \in EMOTION_CATEGORIES

\* ------------------------------------------------------------------------
\* Texts, and the cache key str(hash(text.lower().strip()))
\* ------------------------------------------------------------------------
Texts ==
    { <<"h", "e", "y">>,
      <<" ", "H", "e", "Y", " ">>,
      <<"y", "o", "u">> }

Upper == [H |-> "h", E |-> "e", Y |-> "y", O |-> "o", U |-> "u"]

lower(text) ==
    [i \in 1..Len(text) |-> IF text[i] \in DOMAIN Upper THEN Upper[text[i]] ELSE text[i]]

RECURSIVE lstrip(_)
lstrip(text) ==
    IF text # <<>> /\ Head(text) = " " THEN lstrip(Tail(text)) ELSE text

RECURSIVE rstrip(_)
rstrip(text) ==
    IF text # <<>> /\ text[Len(text)] = " "
    THEN rstrip(SubSeq(text, 1, Len(text) - 1))
    ELSE text

strip(text) == rstrip(lstrip(text))

\* mutant: the key keeps the case of the text
text_hash_case_sensitive(text) == strip(text)

\* hash() is taken to be free of collisions on the texts of the model
text_hash(text) == strip(lower(text))

\* the texts of the model, lower-cased and trimmed by hand
KeyOf ==
    [text \in Texts |->
        CASE text = <<"h", "e", "y">> -> <<"h", "e", "y">>
          [] text = <<" ", "H", "e", "Y", " ">> -> <<"h", "e", "y">>
          [] text = <<"y", "o", "u">> -> <<"y", "o", "u">>]

\* ------------------------------------------------------------------------
\* Responses of the remote classifier
\* ------------------------------------------------------------------------
Num(n)    == [tag |-> "num",    s |-> "", n |-> n]
NumStr(n) == [tag |-> "numstr", s |-> "", n |-> n]
Str(s)    == [tag |-> "str",    s |-> s,  n |-> 0]
Null      == [tag |-> "null",   s |-> "", n |-> 0]

JsonLine(doc) == [kind |-> "json", doc |-> doc]
FenceLine == [kind |-> "fence", doc |-> [isobject |-> FALSE, fields |-> [none |-> Null]]]
TextLine  == [kind |-> "text",  doc |-> [isobject |-> FALSE, fields |-> [none |-> Null]]]
Object(fields) == [isobject |-> TRUE, fields |-> fields]
Array == [isobject |-> FALSE, fields |-> [none |-> Null]]

\* a well-formed answer
WellFormed ==
    <<JsonLine(Object([emotion |-> Str("happy"), confidence |-> Num(80),
                       intensity |-> Num(60)]))>>

\* an answer inside a markdown code block, its numbers outside [0,1], one of
\* them written as a string
OutOfRange ==
    <<FenceLine,
      JsonLine(Object([emotion |-> Str("sad"), confidence |-> NumStr(150),
                       intensity |-> Num(-20)])),
      FenceLine>>

\* a label outside the categories, no confidence
UnknownLabel ==
    <<JsonLine(Object([emotion |-> Str("bored"), intensity |-> Num(30)]))>>

\* a field of a type float() rejects
NonNumeric ==
    <<JsonLine(Object([emotion |-> Str("happy"), confidence |-> Str("high"),
                       intensity |-> Num(60)]))>>

\* not JSON
NotJson == <<TextLine>>

\* no label, a label that is null
MissingLabel ==
    <<JsonLine(Object([confidence |-> Num(80), intensity |-> Num(60)]))>>
NullLabel ==
    <<JsonLine(Object([emotion |-> Null, confidence |-> Num(80),
                       intensity |-> Num(60)]))>>

Responses == {WellFormed, OutOfRange, UnknownLabel, NonNumeric, NotJson}

\* an outcome of the remote call: a response text, or an exception
RemoteOutcomes ==
    { [raises |-> FALSE, text |-> r] : r \in Responses } \cup
    { [raises |-> TRUE, text |-> <<>>] }

get_neutral_emotion(t) ==
    [emotion |-> "neutral", confidence |-> 100, intensity |-> 50,
     valence |-> 0, arousal |-> 50, detected_at |-> t]

\* response_text.strip(), then the lines between the first and the last
\* when the text starts with a code fence
unfence(lines) ==
    IF lines # <<>> /\ lines[1].kind = "fence"
    THEN SubSeq(lines, 2, Len(lines) - 1)
    ELSE lines

json_loads_ok(lines) == Len(lines) = 1 /\ lines[1].kind = "json"

float_ok(v) == v.tag \in {"num", "numstr"}

dict_get(fields, name, default) ==
    IF name \in DOMAIN fields THEN fields[name] ELSE default

\* a parse is a success ("parsed") or falls into the except branch
parse_failed(response_text) ==
    LET lines == unfence(response_text) IN
    \/ ~json_loads_ok(lines)
    \/ ~lines[1].doc.isobject
    \/ ~float_ok(dict_get(lines[1].doc.fields, "confidence", Num(50)))
    \/ ~float_ok(dict_get(lines[1].doc.fields, "intensity", Num(50)))

parse_response(response_text, t) ==
    IF parse_failed(response_text)
    THEN get_neutral_emotion(t)
    ELSE LET data == unfence(response_text)[1].doc.fields
             raw == dict_get(data, "emotion", Str("neutral"))
             emotion == IF is_valid_emotion(raw) THEN raw.s ELSE "neutral"
             va == get_valence_arousal(emotion)
         IN  [emotion |-> emotion,
              confidence |-> dict_get(data, "confidence", Num(50)).n,
              intensity |-> dict_get(data, "intensity", Num(50)).n,
              valence |-> va.valence,
              arousal |-> va.arousal,
              detected_at |-> t]

\* ------------------------------------------------------------------------
\* RateLimiter
\* ------------------------------------------------------------------------
SeqFilter(s, Keep(_)) ==
    LET F[i \in 0..Len(s)] ==
            IF i = 0 THEN <<>>
            ELSE IF Keep(s[i]) THEN Append(F[i - 1], s[i]) ELSE F[i - 1]
    IN  F[Len(s)]

\* mutant: a call made exactly RATE_LIMIT_WINDOW ago still counts
pruned_calls_inclusive(cs, t) ==
    SeqFilter(cs, LAMBDA call_time : t - call_time <= RATE_LIMIT_WINDOW)

\* mutant: the check takes the slot it finds
pruned_calls_recording(cs, t) ==
    Append(SeqFilter(cs, LAMBDA call_time : t - call_time < RATE_LIMIT_WINDOW), t)

\* self.calls after the pruning of can_call
pruned_calls(cs, t) ==
    SeqFilter(cs, LAMBDA call_time : t - call_time < RATE_LIMIT_WINDOW)

can_call(cs, max, t) == Len(pruned_calls(cs, t)) < max

record_call(cs, t) == Append(cs, t)

\* time_until_next_call raises ValueError (min of an empty list) when the
\* limiter denies a call while it holds no call
time_until_next_call_raises(cs, max, t) ==
    ~can_call(cs, max, t) /\ pruned_calls(cs, t) = <<>>

\* min(self.calls) of a non-empty list
RECURSIVE min_call(_)
min_call(cs) ==
    IF Len(cs) = 1 THEN cs[1]
    ELSE LET m == min_call(Tail(cs)) IN IF cs[1] < m THEN cs[1] ELSE m

\* mutant: the age of the oldest call instead of what is left of its window
time_until_next_call_elapsed(cs, max, t) ==
    IF can_call(cs, max, t) THEN 0
    ELSE t - min_call(pruned_calls(cs, t))

time_until_next_call(cs, max, t) ==
    IF can_call(cs, max, t) THEN 0
    ELSE RATE_LIMIT_WINDOW - (t - min_call(pruned_calls(cs, t)))

\* ------------------------------------------------------------------------
\* EmotionCache: a dict from text hash to [emotion, timestamp]
\* ------------------------------------------------------------------------
EmptyCache == [k \in {} |-> 0]

\* mutant: an entry lives one second longer than the TTL
cache_expired_late(entry, t) == t - entry.timestamp > EMOTION_CACHE_TTL + 1

cache_expired(entry, t) == t - entry.timestamp > EMOTION_CACHE_TTL

\* does EmotionCache.get return an emotion
cache_hit(ch, key, t) ==
    key \in DOMAIN ch /\ ~cache_expired(ch[key], t)

\* self.cache after EmotionCache.get
cache_after_get(ch, key, t) ==
    IF key \in DOMAIN ch /\ cache_expired(ch[key], t)
    THEN [k \in DOMAIN ch \ {key} |-> ch[k]]
    ELSE ch

\* mutant: an entry that is overwritten keeps its timestamp
cache_set_keeps_age(ch, key, emotion, t) ==
    [k \in DOMAIN ch \cup {key} |->
        IF k = key
        THEN [emotion |-> emotion,
              timestamp |-> IF key \in DOMAIN ch THEN ch[key].timestamp ELSE t]
        ELSE ch[k]]

cache_set(ch, key, emotion, t) ==
    [k \in DOMAIN ch \cup {key} |->
        IF k = key THEN [emotion |-> emotion, timestamp |-> t] ELSE ch[k]]

\* mutant: the sweep removes an entry as soon as its age reaches the TTL
clear_old_at_ttl(ch, t) ==
    [k \in {key \in DOMAIN ch : ~(t - ch[key].timestamp >= EMOTION_CACHE_TTL)} |-> ch[k]]

clear_old(ch, t) ==
    [k \in {key \in DOMAIN ch : ~(t - ch[key].timestamp > EMOTION_CACHE_TTL)} |-> ch[k]]

\* ------------------------------------------------------------------------
\* PersonalityAdapter (personality_adapter.py)
\* ------------------------------------------------------------------------
Personas == {"teacher", "consultant", "coach", "friend"}

\* the text of a template is represented by the pair of its keys; the 32
\* texts of the table differ from one another
EMOTION_ADAPTATIONS ==
    [persona \in Personas |-> [emotion \in EMOTION_CATEGORIES |-> <<persona, emotion>>]]

\* emotion_history keeps the last HISTORY_LIMIT entries, get_dominant_emotion
\* reads the last DOMINANT_WINDOW, should_check_in the last CHECK_IN_WINDOW
HISTORY_LIMIT == 10
DOMINANT_WINDOW == 5
CHECK_IN_WINDOW == 3

negative_emotions == {"sad", "frustrated", "angry", "anxious"}

\* s[-n:]
last_entries(s, n) ==
    SubSeq(s, IF Len(s) > n THEN Len(s) - n + 1 ELSE 1, Len(s))

\* _get_adaptation: the template, or nothing
get_adaptation(persona, emotion) ==
    IF persona \in DOMAIN EMOTION_ADAPTATIONS
       /\ emotion \in DOMAIN EMOTION_ADAPTATIONS[persona]
    THEN <<EMOTION_ADAPTATIONS[persona][emotion]>>
    ELSE <<>>

\* str.upper of a label
upper(emotion) ==
    CASE emotion = "happy" -> "HAPPY"
      [] emotion = "sad" -> "SAD"
      [] emotion = "angry" -> "ANGRY"
      [] emotion = "anxious" -> "ANXIOUS"
      [] emotion = "neutral" -> "NEUTRAL"
      [] emotion = "excited" -> "EXCITED"
      [] emotion = "confused" -> "CONFUSED"
      [] emotion = "frustrated" -> "FRUSTRATED"
      [] emotion = "bored" -> "BORED"

\* instructions are a sequence of blocks: the base instructions, and the
\* block adapt_instructions adds
directive(emotion, confidence, adaptation) ==
    [kind |-> "directive", label |-> upper(emotion), percent |-> confidence,
     text |-> adaptation]

\* mutant: a confidence equal to the threshold does not pass
adapt_passes_above(emotion_data, confidence_threshold) ==
    ~(emotion_data.confidence <= confidence_threshold)

\* adapt_instructions goes on after the check of the confidence
adapt_passes(emotion_data, confidence_threshold) ==
    ~(emotion_data.confidence < confidence_threshold)

history_entry(emotion_data) ==
    [emotion |-> emotion_data.emotion, confidence |-> emotion_data.confidence,
     timestamp |-> emotion_data.detected_at]

\* mutant: the first entries are kept
adapt_history_keeps_first(h, emotion_data, confidence_threshold) ==
    IF adapt_passes(emotion_data, confidence_threshold)
    THEN LET a == Append(h, history_entry(emotion_data))
         IN  IF Len(a) > HISTORY_LIMIT THEN SubSeq(a, 1, HISTORY_LIMIT) ELSE a
    ELSE h

\* emotion_history when adapt_instructions is left
adapt_history(h, emotion_data, confidence_threshold) ==
    IF adapt_passes(emotion_data, confidence_threshold)
    THEN LET a == Append(h, history_entry(emotion_data))
         IN  IF Len(a) > HISTORY_LIMIT THEN last_entries(a, HISTORY_LIMIT) ELSE a
    ELSE h

\* current_emotion when adapt_instructions is left
\* mutant: current_emotion is set before the confidence is checked
adapt_current_emotion_before_gate(current, emotion_data, confidence_threshold) ==
    emotion_data.emotion

adapt_current_emotion(current, emotion_data, confidence_threshold) ==
    IF adapt_passes(emotion_data, confidence_threshold)
    THEN emotion_data.emotion ELSE current

\* mutant: a label without a template gets a block with an empty text
adapt_returned_always(persona, base_instructions, emotion_data, confidence_threshold) ==
    IF ~adapt_passes(emotion_data, confidence_threshold)
    THEN base_instructions
    ELSE Append(base_instructions,
                directive(emotion_data.emotion, emotion_data.confidence,
                          get_adaptation(persona, emotion_data.emotion)))

\* the instructions adapt_instructions returns
adapt_returned(persona, base_instructions, emotion_data, confidence_threshold) ==
    IF ~adapt_passes(emotion_data, confidence_threshold)
    THEN base_instructions
    ELSE IF get_adaptation(persona, emotion_data.emotion) = <<>>
         THEN base_instructions
         ELSE Append(base_instructions,
                     directive(emotion_data.emotion, emotion_data.confidence,
                               get_adaptation(persona, emotion_data.emotion)[1]))

\* the keys of emotion_counts, in the order of their insertion
first_seen(entries) ==
    LET F[i \in 0..Len(entries)] ==
            IF i = 0 THEN <<>>
            ELSE IF \E j \in 1..Len(F[i - 1]) : F[i - 1][j] = entries[i].emotion
                 THEN F[i - 1]
                 ELSE Append(F[i - 1], entries[i].emotion)
    IN  F[Len(entries)]

\* emotion_counts[emotion]
count_of(entries, emotion) ==
    Cardinality({i \in 1..Len(entries) : entries[i].emotion = emotion})

\* mutant: among the keys of the highest count the last one wins
max_by_count_last(keys, entries) ==
    LET M[i \in 1..Len(keys)] ==
            IF i = 1 THEN keys[1]
            ELSE IF count_of(entries, keys[i]) >= count_of(entries, M[i - 1])
                 THEN keys[i] ELSE M[i - 1]
    IN  M[Len(keys)]

\* max(emotion_counts, key=emotion_counts.get): the first key, in the order
\* of iteration, whose count no other key exceeds
max_by_count(keys, entries) ==
    LET M[i \in 1..Len(keys)] ==
            IF i = 1 THEN keys[1]
            ELSE IF count_of(entries, keys[i]) > count_of(entries, M[i - 1])
                 THEN keys[i] ELSE M[i - 1]
    IN  M[Len(keys)]

get_dominant_emotion(h) ==
    IF h = <<>> THEN "neutral"
    ELSE LET entries == last_entries(h, DOMINANT_WINDOW)
         IN  max_by_count(first_seen(entries), entries)

\* mutant: one negative entry among the last three is enough
should_check_in_any(h) ==
    IF Len(h) < CHECK_IN_WINDOW THEN FALSE
    ELSE \E i \in 1..CHECK_IN_WINDOW :
            last_entries(h, CHECK_IN_WINDOW)[i].emotion \in negative_emotions

should_check_in(h) ==
    IF Len(h) < CHECK_IN_WINDOW THEN FALSE
    ELSE \A i \in 1..CHECK_IN_WINDOW :
            last_entries(h, CHECK_IN_WINDOW)[i].emotion \in negative_emotions

\* ------------------------------------------------------------------------
\* State
\* ------------------------------------------------------------------------
Convs == {"c1", "c2"}

VARIABLES
    now,                 \* time.time()
    sessions,            \* conversations whose session handler exists
    client,              \* client[c]: the detector of c has a Gemini client
    max_calls,           \* rate_limiter.max_calls of the detector of c
    calls,               \* rate_limiter.calls of the detector of c
    cache,               \* cache.cache of the detector of c
    last_analysis_time,  \* of the detector of c
    last_emotion,        \* of the detector of c
    ret,                 \* the last operation: where it returned, and what
    analysed,            \* history: the last successful analysis of c
    fresh,               \* history: the insertions into the cache of c that
                         \* are at most EMOTION_CACHE_TTL old
    invoked,             \* history: the times at which the detector of c
                         \* called the remote classifier, within the window
    burst,               \* history: the calls of c so far are forced calls
                         \* with distinct texts, made within one window,
                         \* whose remote calls all succeeded
    agent_type,          \* adapter.agent_type of the session handler of c
    store_enabled,       \* the handler of c has a session_id and an auth_token
    message_count,       \* of the session handler of c
    last_user_message,   \* of the session handler of c
    emotion_history,     \* adapter.emotion_history of c
    current_emotion,     \* adapter.current_emotion of c
    instructions,        \* agent.instructions of the agent of c
    storing,             \* the speech handlers of c suspended in _store_emotion
    inflight,            \* the detect_emotion calls of c suspended in the
                         \* remote call
    adapted,             \* the last call of adapt_instructions: its
                         \* arguments and the instructions it returned
    appended,            \* history: every entry ever appended to
                         \* emotion_history of c, with the number of the
                         \* message it was appended for
    selected             \* history: for each result handed to
                         \* get_adapted_instructions, the instructions its
                         \* first call returned and the number of entries
                         \* appended before that call

detector == <<client, max_calls, calls, cache, last_analysis_time, last_emotion>>

\* the PersonalityAdapter, the session handler and the agent of each session
conversation ==
    <<agent_type, store_enabled, message_count, last_user_message,
      emotion_history, current_emotion, instructions, storing, adapted,
      appended, selected>>

vars == <<now, sessions, client, max_calls, calls, cache,
          last_analysis_time, last_emotion, ret, analysed, fresh,
          invoked, burst, agent_type, store_enabled, message_count,
          last_user_message, emotion_history, current_emotion, instructions,
          storing, inflight, adapted, appended, selected>>

history == <<analysed, fresh, invoked, burst>>

NoCall ==
    [path |-> "none", conv |-> "c1", returned |-> <<>>, text |-> <<>>,
     force |-> FALSE, t |-> 0]

\* the time at which the last call was made is kept while it is less than
\* MIN_ANALYSIS_INTERVAL ago
Recent(r, t) == IF t - r.t < MIN_ANALYSIS_INTERVAL THEN r ELSE [r EXCEPT !.t = 0]

NoBurst == [alive |-> TRUE, n |-> 0, remote |-> 0, keys |-> {}, start |-> 0]
BurstOver == [alive |-> FALSE, n |-> 0, remote |-> 0, keys |-> {}, start |-> 0]

\* EmotionDetector.__init__ for every session of S, under one environment
InitSessions(S, Configured, MaxCalls) ==
    /\ now = StartTime
    /\ sessions = S
    /\ \E configured \in Configured : client = [c \in Convs |-> configured]
    /\ \E n \in MaxCalls : max_calls = [c \in Convs |-> n]
    /\ calls = [c \in Convs |-> <<>>]
    /\ cache = [c \in Convs |-> EmptyCache]
    /\ last_analysis_time = [c \in Convs |-> 0]
    /\ last_emotion = [c \in Convs |-> get_neutral_emotion(StartTime)]
    /\ ret = NoCall
    /\ analysed = [c \in Convs |-> <<>>]
    /\ fresh = [c \in Convs |-> EmptyCache]
    /\ invoked = [c \in Convs |-> <<>>]
    /\ burst = [c \in Convs |-> NoBurst]

\* agent_config["instructions"] of the registry
BaseInstructions == <<[kind |-> "base"]>>

NoAdapt ==
    [conv |-> "c1", emotion_data |-> get_neutral_emotion(0), passed |-> FALSE,
     returned |-> <<>>]

\* PersonalityAdapter.__init__ and the rest of
\* EmotionAwareSessionHandler.__init__, for every session; entrypoint starts
\* the agent with the base instructions
InitHandlers(AgentTypes, Stores) ==
    /\ \E a \in AgentTypes : agent_type = [c \in Convs |-> a]
    /\ \E b \in Stores : store_enabled = [c \in Convs |-> b]
    /\ message_count = [c \in Convs |-> 0]
    /\ last_user_message = [c \in Convs |-> <<>>]
    /\ emotion_history = [c \in Convs |-> <<>>]
    /\ current_emotion = [c \in Convs |-> "neutral"]
    /\ instructions = [c \in Convs |-> BaseInstructions]
    /\ storing = [c \in Convs |-> <<>>]
    /\ inflight = [c \in Convs |-> <<>>]
    /\ adapted = NoAdapt
    /\ selected = EmptyCache
    /\ appended = [c \in Convs |-> <<>>]

Init ==
    /\ InitSessions({"c1"}, BOOLEAN, MaxCallsConfigs)
    /\ InitHandlers({"teacher"}, {FALSE})

\* history: the insertions that are still at most EMOTION_CACHE_TTL old at t
StillFresh(f, t) ==
    [k \in {key \in DOMAIN f : t - f[key].timestamp <= EMOTION_CACHE_TTL} |-> f[k]]

Inserted(f, key, text, emotion, t) ==
    [k \in DOMAIN f \cup {key} |->
        IF k = key THEN [emotion |-> emotion, timestamp |-> t, text |-> text]
        ELSE f[k]]

\* history: the remote calls made less than RATE_LIMIT_WINDOW before t, the
\* oldest forgotten once there are more than RATE_LIMIT_CALLS + 1
InWindow(s, t) ==
    LET w == SelectSeq(s, LAMBDA x : t - x < RATE_LIMIT_WINDOW)
    IN  IF Len(w) > RATE_LIMIT_CALLS + 1 THEN Tail(w) ELSE w

Tick ==
    /\ now < StartTime + Horizon
    /\ now' = now + 1
    /\ fresh' = [c \in Convs |-> StillFresh(fresh[c], now + 1)]
    /\ invoked' = [c \in Convs |-> InWindow(invoked[c], now + 1)]
    /\ ret' = Recent(ret, now + 1)
    /\ UNCHANGED <<sessions, detector, analysed, burst, conversation, inflight>>

\* mutant: the force flag read the wrong way round
debounced_when_forced(c, force) ==
    force /\ now - last_analysis_time[c] < MIN_ANALYSIS_INTERVAL

\* the interval check of detect_emotion
debounced(c, force) ==
    ~force /\ now - last_analysis_time[c] < MIN_ANALYSIS_INTERVAL

\* mutant: a forced call skips the cache as well
detect_path_force_skips_cache(c, text, force, outcome) ==
    IF debounced(c, force) THEN "debounce"
    ELSE IF ~force /\ cache_hit(cache[c], text_hash(text), now) THEN "cache"
    ELSE IF ~can_call(calls[c], max_calls[c], now)
         THEN IF time_until_next_call_raises(calls[c], max_calls[c], now)
              THEN "raised" ELSE "limited"
    ELSE IF ~client[c] THEN "noclient"
    ELSE IF outcome.raises THEN "error"
    ELSE "ok"

\* which return statement of detect_emotion a call reaches
detect_path(c, text, force, outcome) ==
    IF debounced(c, force) THEN "debounce"
    ELSE IF cache_hit(cache[c], text_hash(text), now) THEN "cache"
    ELSE IF ~can_call(calls[c], max_calls[c], now)
         THEN IF time_until_next_call_raises(calls[c], max_calls[c], now)
              THEN "raised" ELSE "limited"
    ELSE IF ~client[c] THEN "noclient"
    ELSE IF outcome.raises THEN "error"
    ELSE "ok"

\* the call reaches _analyze_with_gemini
invokes_remote(c, text, force) ==
    detect_path(c, text, force, [raises |-> TRUE, text |-> <<>>]) = "error"

\* the value detect_emotion returns (no value when it raises); the remote
\* call, when it is made, ends as outcome after dt seconds
detect_returned(c, text, force, outcome, dt) ==
    LET path == detect_path(c, text, force, outcome) IN
    CASE path \in {"debounce", "limited", "error"} -> <<last_emotion[c]>>
      [] path = "cache" -> <<cache[c][text_hash(text)].emotion>>
      [] path = "noclient" -> <<get_neutral_emotion(now)>>
      [] path = "ok" -> <<parse_response(outcome.text, now + dt)>>
      [] path = "raised" -> <<>>

\* mutant: the cache is looked up before the interval check
detect_cache_lookup_first(c, text, force, outcome, dt) ==
    LET path == detect_path(c, text, force, outcome)
        key == text_hash(text)
    IN  IF path = "ok"
        THEN cache_set(cache_after_get(cache[c], key, now), key,
                       parse_response(outcome.text, now + dt), now + dt)
        ELSE cache_after_get(cache[c], key, now)

\* cache.cache when detect_emotion is left
detect_cache(c, text, force, outcome, dt) ==
    LET path == detect_path(c, text, force, outcome)
        key == text_hash(text)
    IN  IF path = "debounce" THEN cache[c]
        ELSE IF path = "ok"
             THEN cache_set(cache_after_get(cache[c], key, now), key,
                            parse_response(outcome.text, now + dt), now + dt)
             ELSE cache_after_get(cache[c], key, now)

\* mutant: record_call moved in front of the remote call, so that a call
\* that fails is recorded too
detect_calls_failure_recorded(c, text, force, outcome, dt) ==
    LET path == detect_path(c, text, force, outcome) IN
    IF path \in {"debounce", "cache"} THEN calls[c]
    ELSE IF path \in {"ok", "error"}
         THEN record_call(pruned_calls(calls[c], now), now)
         ELSE pruned_calls(calls[c], now)

\* rate_limiter.calls when detect_emotion is left
detect_calls(c, text, force, outcome, dt) ==
    LET path == detect_path(c, text, force, outcome) IN
    IF path \in {"debounce", "cache"} THEN calls[c]
    ELSE IF path = "ok" THEN record_call(pruned_calls(calls[c], now), now + dt)
         ELSE pruned_calls(calls[c], now)

\* mutant: the fallback without a client counts as an analysis
detect_last_analysis_time_on_fallback(c, text, force, outcome, dt) ==
    IF detect_path(c, text, force, outcome) \in {"ok", "noclient"}
    THEN now + dt ELSE last_analysis_time[c]

detect_last_analysis_time(c, text, force, outcome, dt) ==
    IF detect_path(c, text, force, outcome) = "ok"
    THEN now + dt ELSE last_analysis_time[c]

\* mutant: the result of the analysis is returned, but not kept
detect_last_emotion_kept(c, text, force, outcome, dt) == last_emotion[c]

detect_last_emotion(c, text, force, outcome, dt) ==
    IF detect_path(c, text, force, outcome) = "ok"
    THEN parse_response(outcome.text, now + dt) ELSE last_emotion[c]

\* await detector.detect_emotion(text, force)
detect_emotion(c, text, force, outcome, dt) ==
    LET path == detect_path(c, text, force, outcome)
        t1 == IF path \in {"ok", "error"} THEN now + dt ELSE now
    IN
    /\ c \in sessions
    /\ t1 <= StartTime + Horizon
    /\ now' = t1
    /\ cache' = [cache EXCEPT ![c] = detect_cache(c, text, force, outcome, dt)]
    /\ calls' = [calls EXCEPT ![c] = detect_calls(c, text, force, outcome, dt)]
    /\ last_analysis_time' = [last_analysis_time EXCEPT ![c] =
            detect_last_analysis_time(c, text, force, outcome, dt)]
    /\ last_emotion' = [last_emotion EXCEPT ![c] =
            detect_last_emotion(c, text, force, outcome, dt)]
    /\ ret' = [path |-> path, conv |-> c,
               returned |-> detect_returned(c, text, force, outcome, dt),
               text |-> text, force |-> force, t |-> now]
    /\ analysed' = [analysed EXCEPT ![c] =
            IF path = "ok"
            THEN <<[emotion |-> parse_response(outcome.text, t1), t |-> t1]>>
            ELSE @]
    /\ fresh' = [d \in Convs |->
            StillFresh(IF d = c /\ path = "ok"
                       THEN Inserted(fresh[c], KeyOf[text], text,
                                     parse_response(outcome.text, t1), t1)
                       ELSE fresh[d], t1)]
    /\ UNCHANGED <<sessions, client, max_calls>>

NoOutcome == [raises |-> TRUE, text |-> <<>>]

GoodOutcome == [raises |-> FALSE, text |-> WellFormed]

\* history of the limiter, recorded in the specifications whose properties
\* read it
Counted(c, text, force, outcome, dt) ==
    LET path == detect_path(c, text, force, outcome) IN
    /\ invoked' = [d \in Convs |->
            InWindow(IF d = c /\ path \in {"ok", "error"}
                     THEN Append(invoked[c], now) ELSE invoked[d], now')]
    /\ burst' = [burst EXCEPT ![c] =
            IF /\ @.alive /\ client[c] /\ force
               /\ KeyOf[text] \notin @.keys
               /\ path # "error"
               /\ (@.n = 0 \/ now - @.start < RATE_LIMIT_WINDOW)
            THEN [alive |-> TRUE, n |-> @.n + 1,
                  remote |-> IF path = "ok" THEN @.remote + 1 ELSE @.remote,
                  keys |-> @.keys \cup {KeyOf[text]},
                  start |-> IF @.n = 0 THEN now ELSE @.start]
            ELSE BurstOver]

NotCounted == UNCHANGED <<invoked, burst>>

\* the session handler and the tests call detect_emotion
DetectWith(T, F, O, D, count) ==
    \E c \in Convs, text \in T, force \in F :
        IF invokes_remote(c, text, force)
        THEN \E outcome \in O, dt \in D :
                /\ detect_emotion(c, text, force, outcome, dt)
                /\ IF count THEN Counted(c, text, force, outcome, dt) ELSE NotCounted
                /\ UNCHANGED <<conversation, inflight>>
        ELSE /\ detect_emotion(c, text, force, NoOutcome, 0)
             /\ IF count THEN Counted(c, text, force, NoOutcome, 0) ELSE NotCounted
             /\ UNCHANGED <<conversation, inflight>>

Detect == DetectWith(Texts, BOOLEAN, RemoteOutcomes, 0..MaxRemoteDelay, FALSE)

Next == Tick \/ Detect

Spec == Init /\ [][Next]_vars

\* ------------------------------------------------------------------------
\* Two conversations, each with its own session handler, one text in two
\* spellings, a classifier that answers at once
\* ------------------------------------------------------------------------
InitTwo ==
    /\ InitSessions(Convs, {TRUE}, {RATE_LIMIT_CALLS})
    /\ InitHandlers({"teacher"}, {FALSE})

DetectTwo ==
    DetectWith({<<"h", "e", "y">>, <<" ", "H", "e", "Y", " ">>}, {FALSE},
               {GoodOutcome}, {0}, FALSE)

NextTwo == Tick \/ DetectTwo

SpecTwo == InitTwo /\ [][NextTwo]_vars

\* ------------------------------------------------------------------------
\* One detector with a client, its remote calls counted; the classifier
\* gives a well-formed answer or raises
\* ------------------------------------------------------------------------
InitLimiter ==
    /\ InitSessions({"c1"}, {TRUE}, MaxCallsConfigs)
    /\ InitHandlers({"teacher"}, {FALSE})

DetectCounted ==
    DetectWith(Texts, BOOLEAN, {GoodOutcome, NoOutcome}, 0..MaxRemoteDelay, TRUE)

NextLimiter == Tick \/ DetectCounted

SpecLimiter == InitLimiter /\ [][NextLimiter]_vars

\* ------------------------------------------------------------------------
\* The cache of one detector, used through get, set and clear_old
\* ------------------------------------------------------------------------
Keys == {KeyOf[text] : text \in Texts}

CacheGet(c, key) ==
    /\ c \in sessions
    /\ cache' = [cache EXCEPT ![c] = cache_after_get(@, key, now)]
    /\ ret' = [conv |-> c,
               path |-> IF key \notin DOMAIN cache[c] THEN "get_absent"
                        ELSE IF cache_hit(cache[c], key, now) THEN "get_hit"
                        ELSE "get_expired",
               returned |-> IF cache_hit(cache[c], key, now)
                            THEN <<cache[c][key].emotion>> ELSE <<>>,
               text |-> key, force |-> FALSE, t |-> now]
    /\ UNCHANGED <<now, sessions, client, max_calls, calls,
                   last_analysis_time, last_emotion, history, conversation,
                   inflight>>

\* history: the insertion, and the entry it took the place of
Replaced(f, ch, key, emotion, t) ==
    [k \in DOMAIN f \cup {key} |->
        IF k = key
        THEN [emotion |-> emotion, timestamp |-> t, text |-> key,
              replaced |-> IF key \in DOMAIN ch THEN <<ch[key]>> ELSE <<>>]
        ELSE f[k]]

CacheSet(c, key, emotion) ==
    /\ c \in sessions
    /\ cache' = [cache EXCEPT ![c] = cache_set(@, key, emotion, now)]
    /\ fresh' = [fresh EXCEPT ![c] = Replaced(@, cache[c], key, emotion, now)]
    /\ ret' = [path |-> "set", conv |-> c, returned |-> <<>>, text |-> key,
               force |-> FALSE, t |-> now]
    /\ UNCHANGED <<now, sessions, client, max_calls, calls,
                   last_analysis_time, last_emotion, analysed, invoked, burst,
                   conversation, inflight>>

ClearOld(c) ==
    /\ c \in sessions
    /\ cache' = [cache EXCEPT ![c] = clear_old(@, now)]
    /\ ret' = [path |-> "clear_old", conv |-> c, returned |-> <<>>,
               text |-> {key \in DOMAIN cache[c] : cache_expired(cache[c][key], now)},
               force |-> FALSE, t |-> now]
    /\ UNCHANGED <<now, sessions, client, max_calls, calls,
                   last_analysis_time, last_emotion, history, conversation,
                   inflight>>

CacheOps ==
    \E c \in Convs :
        \/ \E key \in Keys : CacheGet(c, key)
        \/ \E key \in Keys, outcome \in {GoodOutcome, NoOutcome} :
                CacheSet(c, key, parse_response(outcome.text, now))
        \/ ClearOld(c)

NextCache == Tick \/ CacheOps

SpecCache == Init /\ [][NextCache]_vars

\* ------------------------------------------------------------------------
\* One detector whose calls are suspended at
\*     emotion_data = await self._analyze_with_gemini(text)
\* while other calls of the same detector run
\* ------------------------------------------------------------------------
\* detect_emotion up to the await: a call that does not reach it runs to its
\* return statement
begin_detect(c, text, force) ==
    IF invokes_remote(c, text, force)
    THEN /\ c \in sessions
         /\ Len(inflight[c]) < MaxInFlight
         /\ cache' = [cache EXCEPT ![c] = cache_after_get(@, text_hash(text), now)]
         /\ calls' = [calls EXCEPT ![c] = pruned_calls(@, now)]
         /\ inflight' = [inflight EXCEPT ![c] = Append(@, [text |-> text, force |-> force])]
         /\ invoked' = [invoked EXCEPT ![c] = InWindow(Append(@, now), now)]
         /\ ret' = [path |-> "await", conv |-> c, returned |-> <<>>, text |-> text,
                    force |-> force, t |-> now]
         /\ UNCHANGED <<now, last_analysis_time, last_emotion, analysed, fresh>>
    ELSE /\ detect_emotion(c, text, force, NoOutcome, 0)
         /\ UNCHANGED <<inflight, invoked>>

\* detect_emotion from the await on, for the i-th suspended call
finish_detect(c, i, outcome) ==
    LET call == inflight[c][i]
        key == text_hash(call.text)
        emotion_data == parse_response(outcome.text, now)
    IN
    /\ c \in sessions
    /\ i \in 1..Len(inflight[c])
    /\ inflight' = [inflight EXCEPT ![c] =
            SubSeq(@, 1, i - 1) \o SubSeq(@, i + 1, Len(@))]
    /\ IF outcome.raises
       THEN /\ ret' = [path |-> "error", conv |-> c, returned |-> <<last_emotion[c]>>,
                       text |-> call.text, force |-> call.force, t |-> now]
            /\ UNCHANGED <<calls, last_analysis_time, last_emotion, cache,
                           analysed, fresh>>
       ELSE /\ calls' = [calls EXCEPT ![c] = record_call(@, now)]
            /\ last_analysis_time' = [last_analysis_time EXCEPT ![c] = now]
            /\ last_emotion' = [last_emotion EXCEPT ![c] = emotion_data]
            /\ cache' = [cache EXCEPT ![c] = cache_set(@, key, emotion_data, now)]
            /\ ret' = [path |-> "ok", conv |-> c, returned |-> <<emotion_data>>,
                       text |-> call.text, force |-> call.force, t |-> now]
            /\ analysed' = [analysed EXCEPT ![c] = <<[emotion |-> emotion_data, t |-> now]>>]
            /\ fresh' = [fresh EXCEPT ![c] =
                    Inserted(@, KeyOf[call.text], call.text, emotion_data, now)]
    /\ UNCHANGED <<now, invoked>>

InitInFlight ==
    /\ InitSessions({"c1"}, {TRUE}, {1, RATE_LIMIT_CALLS})
    /\ InitHandlers({"teacher"}, {FALSE})

BeginDetect ==
    \E c \in Convs, text \in Texts, force \in BOOLEAN :
        /\ begin_detect(c, text, force)
        /\ UNCHANGED <<sessions, client, max_calls, burst, conversation>>

FinishDetect ==
    \E c \in Convs, i \in 1..MaxInFlight :
        /\ finish_detect(c, i, GoodOutcome)
        /\ UNCHANGED <<sessions, client, max_calls, burst, conversation>>

NextInFlight == Tick \/ BeginDetect \/ FinishDetect

SpecInFlight == InitInFlight /\ [][NextInFlight]_vars

\* ------------------------------------------------------------------------
\* The adapter of one session, used through get_adapted_instructions
\* ------------------------------------------------------------------------
\* mutant: the template is chosen by the dominant emotion of the history
adapt_instructions_by_dominant(c, n, base_instructions, emotion_data, confidence_threshold) ==
    /\ emotion_history' = [emotion_history EXCEPT ![c] =
            adapt_history(@, emotion_data, confidence_threshold)]
    /\ current_emotion' = [current_emotion EXCEPT ![c] =
            adapt_current_emotion(@, emotion_data, confidence_threshold)]
    /\ adapted' = [conv |-> c, emotion_data |-> emotion_data,
                   passed |-> adapt_passes(emotion_data, confidence_threshold),
                   returned |-> adapt_returned(agent_type[c], base_instructions,
                        [emotion_data EXCEPT !.emotion = get_dominant_emotion(
                            adapt_history(emotion_history[c], emotion_data,
                                          confidence_threshold))],
                        confidence_threshold)]
    /\ appended' = [appended EXCEPT ![c] =
            IF adapt_passes(emotion_data, confidence_threshold)
            THEN Append(@, [entry |-> history_entry(emotion_data), n |-> n])
            ELSE @]

\* adapter.adapt_instructions(base_instructions, emotion_data,
\* confidence_threshold), called for message n (0: not for a message)
adapt_instructions(c, n, base_instructions, emotion_data, confidence_threshold) ==
    /\ emotion_history' = [emotion_history EXCEPT ![c] =
            adapt_history(@, emotion_data, confidence_threshold)]
    /\ current_emotion' = [current_emotion EXCEPT ![c] =
            adapt_current_emotion(@, emotion_data, confidence_threshold)]
    /\ adapted' = [conv |-> c, emotion_data |-> emotion_data,
                   passed |-> adapt_passes(emotion_data, confidence_threshold),
                   returned |-> adapt_returned(agent_type[c], base_instructions,
                                               emotion_data, confidence_threshold)]
    /\ appended' = [appended EXCEPT ![c] =
            IF adapt_passes(emotion_data, confidence_threshold)
            THEN Append(@, [entry |-> history_entry(emotion_data), n |-> n])
            ELSE @]

\* results handed to the adapter: a label at exactly the threshold, one above
\* it, one below it, a label without a template, and the neutral result
EmotionData(emotion, confidence) ==
    [emotion |-> emotion, confidence |-> confidence, intensity |-> 60,
     valence |-> get_valence_arousal(emotion).valence,
     arousal |-> get_valence_arousal(emotion).arousal,
     detected_at |-> StartTime]

HappyAtThreshold == EmotionData("happy", CONFIDENCE_THRESHOLD)
SadConfident == EmotionData("sad", 90)
SadBelowThreshold == EmotionData("sad", CONFIDENCE_THRESHOLD - 1)
BoredConfident == EmotionData("bored", 80)

\* handler.get_adapted_instructions(base_instructions, emotion_data)
get_adapted_instructions(c, emotion_data, cap) ==
    /\ c \in sessions
    /\ adapt_passes(emotion_data, CONFIDENCE_THRESHOLD) => Len(appended[c]) < cap
    /\ adapt_instructions(c, 0, BaseInstructions, emotion_data, CONFIDENCE_THRESHOLD)
    /\ selected' =
            IF emotion_data \in DOMAIN selected THEN selected
            ELSE [d \in DOMAIN selected \cup {emotion_data} |->
                    IF d = emotion_data
                    THEN [returned |-> adapted'.returned, at |-> Len(appended[c])]
                    ELSE selected[d]]
    /\ UNCHANGED <<now, sessions, detector, ret, history, agent_type,
                   store_enabled, message_count, last_user_message,
                   instructions, storing, inflight>>

InitAdapter ==
    /\ InitSessions({"c1"}, {TRUE}, {RATE_LIMIT_CALLS})
    /\ InitHandlers({"teacher"}, {FALSE})

NextAdapter ==
    \E emotion_data \in {HappyAtThreshold, SadConfident, SadBelowThreshold} :
        get_adapted_instructions("c1", emotion_data, MaxAppends)

SpecAdapter == InitAdapter /\ [][NextAdapter]_vars

\* every persona of the table and one that is not in it, labels with and
\* without a template
MaxSelects == 4

InitSelect ==
    /\ InitSessions({"c1"}, {TRUE}, {RATE_LIMIT_CALLS})
    /\ InitHandlers(Personas \cup {"stranger"}, {FALSE})

NextSelect ==
    \E emotion_data \in {HappyAtThreshold, SadBelowThreshold, BoredConfident,
                         get_neutral_emotion(StartTime)} :
        get_adapted_instructions("c1", emotion_data, MaxSelects)

SpecSelect == InitSelect /\ [][NextSelect]_vars

\* ------------------------------------------------------------------------
\* One session: the handler of "user_speech_committed" (worker.py), which
\* runs process_user_message and then adapts the instructions of the agent.
\* Each committed speech starts its own run of the handler; a run is
\* suspended while _store_emotion posts to the backend.
\* ------------------------------------------------------------------------
\* a response with a confidence below the threshold
LowConfidence ==
    <<JsonLine(Object([emotion |-> Str("sad"), confidence |-> Num(40),
                       intensity |-> Num(60)]))>>

SpeechOutcomes ==
    { [raises |-> FALSE, text |-> r] : r \in {WellFormed, LowConfidence, UnknownLabel} }
    \cup {NoOutcome}

SpeechTexts == Texts \cup { <<" ", "h", "i">> }

\* mutant: the length is taken before the text is trimmed
too_short_untrimmed(text) == Len(text) < 3

\* not text or len(text.strip()) < 3
too_short(text) == Len(strip(text)) < 3

\* mutant: the adaptation is computed from the instructions of the agent
speech_adapt_from_current(c, n, emotion_data) ==
    IF emotion_data.emotion # "neutral"
    THEN /\ adapt_instructions(c, n, instructions[c], emotion_data, CONFIDENCE_THRESHOLD)
         /\ instructions' = [instructions EXCEPT ![c] =
                adapt_returned(agent_type[c], instructions[c], emotion_data,
                               CONFIDENCE_THRESHOLD)]
    ELSE UNCHANGED <<emotion_history, current_emotion, adapted, appended, instructions>>

\* the end of on_user_speech, for the result of message n
speech_adapt(c, n, emotion_data) ==
    IF emotion_data.emotion # "neutral"
    THEN /\ adapt_instructions(c, n, BaseInstructions, emotion_data, CONFIDENCE_THRESHOLD)
         /\ instructions' = [instructions EXCEPT ![c] =
                adapt_returned(agent_type[c], BaseInstructions, emotion_data,
                               CONFIDENCE_THRESHOLD)]
    ELSE UNCHANGED <<emotion_history, current_emotion, adapted, appended, instructions>>

\* on_user_speech(message) up to its return or to the post of _store_emotion
on_user_speech(c, text, outcome, dt) ==
    LET returned == detect_returned(c, text, FALSE, outcome, dt)
        n == message_count[c] + 1
    IN
    /\ c \in sessions
    /\ IF too_short(text)
       THEN UNCHANGED vars
       ELSE /\ last_user_message' = [last_user_message EXCEPT ![c] = text]
            /\ message_count' = [message_count EXCEPT ![c] = n]
            /\ detect_emotion(c, text, FALSE, outcome, dt)
            /\ IF returned = <<>>
               THEN UNCHANGED <<emotion_history, current_emotion, adapted,
                                appended, instructions, storing>>
               ELSE IF store_enabled[c] /\ returned[1].emotion # "neutral"
                    THEN /\ storing' = [storing EXCEPT ![c] =
                                Append(@, [n |-> n, emotion_data |-> returned[1]])]
                         /\ UNCHANGED <<emotion_history, current_emotion, adapted,
                                        appended, instructions>>
                    ELSE /\ speech_adapt(c, n, returned[1])
                         /\ UNCHANGED storing
            /\ UNCHANGED <<invoked, burst, agent_type, store_enabled, inflight,
                           selected>>

\* the post of _store_emotion of the i-th suspended run ends, and the run
\* goes on to its end
store_done(c, i) ==
    /\ c \in sessions
    /\ i \in 1..Len(storing[c])
    /\ storing' = [storing EXCEPT ![c] = SubSeq(@, 1, i - 1) \o SubSeq(@, i + 1, Len(@))]
    /\ speech_adapt(c, storing[c][i].n, storing[c][i].emotion_data)
    /\ UNCHANGED <<now, sessions, detector, ret, history, agent_type,
                   store_enabled, message_count, last_user_message, inflight,
                   selected>>

InitSession ==
    /\ InitSessions({"c1"}, {TRUE}, {RATE_LIMIT_CALLS})
    /\ InitHandlers({"teacher"}, BOOLEAN)

SpeechWith(T, O, D, cap) ==
    \E c \in Convs, text \in T :
        /\ too_short(text) \/ message_count[c] < cap
        /\ IF ~too_short(text) /\ invokes_remote(c, text, FALSE)
           THEN \E outcome \in O, dt \in D : on_user_speech(c, text, outcome, dt)
           ELSE on_user_speech(c, text, NoOutcome, 0)

UserSpeech == SpeechWith(SpeechTexts, SpeechOutcomes, 0..MaxRemoteDelay, MaxMessages)

StoreDone == \E c \in Convs, i \in 1..MaxMessages : store_done(c, i)

NextSession == Tick \/ UserSpeech \/ StoreDone

SpecSession == InitSession /\ [][NextSession]_vars

\* ------------------------------------------------------------------------
\* One session without a backend session id: messages classified sad with
\* confidence, or neutral
\* ------------------------------------------------------------------------
MaxStreak == 4

SadAnswer ==
    <<JsonLine(Object([emotion |-> Str("sad"), confidence |-> Num(90),
                       intensity |-> Num(60)]))>>

StreakOutcomes == { [raises |-> FALSE, text |-> r] : r \in {SadAnswer, UnknownLabel} }

InitStreak ==
    /\ InitSessions({"c1"}, {TRUE}, {RATE_LIMIT_CALLS})
    /\ InitHandlers({"teacher"}, {FALSE})

StreakSpeech == SpeechWith(Texts, StreakOutcomes, {0}, MaxStreak)

NextStreak == Tick \/ StreakSpeech

SpecStreak == InitStreak /\ [][NextStreak]_vars

\* ------------------------------------------------------------------------
\* process_user_message called on its own, with texts it ignores among the
\* messages
\* ------------------------------------------------------------------------
ShortTexts == { <<>>, <<" ", " ", " ", " ">>, <<" ", "h", "i">>, <<"h", "i", " ">> }

\* await handler.process_user_message(message_text); the post of
\* _store_emotion it awaits changes nothing in the handler
process_user_message(c, text, outcome, dt) ==
    /\ c \in sessions
    /\ IF too_short(text)
       THEN /\ ret' = [path |-> "ignored", conv |-> c, returned |-> <<>>,
                       text |-> text, force |-> FALSE, t |-> now]
            /\ UNCHANGED <<now, sessions, detector, history, message_count,
                           last_user_message>>
       ELSE /\ last_user_message' = [last_user_message EXCEPT ![c] = text]
            /\ message_count' = [message_count EXCEPT ![c] = @ + 1]
            /\ detect_emotion(c, text, FALSE, outcome, dt)
            /\ UNCHANGED <<invoked, burst>>
    /\ UNCHANGED <<agent_type, store_enabled, emotion_history, current_emotion,
                   instructions, storing, inflight, adapted, appended, selected>>

InitMessages ==
    /\ InitSessions({"c1"}, {TRUE}, {RATE_LIMIT_CALLS})
    /\ InitHandlers({"teacher"}, BOOLEAN)

ProcessUserMessage ==
    \E c \in Convs, text \in Texts \cup ShortTexts :
        /\ too_short(text) \/ message_count[c] < MaxMessages
        /\ IF ~too_short(text) /\ invokes_remote(c, text, FALSE)
           THEN \E outcome \in {GoodOutcome, NoOutcome} :
                    process_user_message(c, text, outcome, 0)
           ELSE process_user_message(c, text, NoOutcome, 0)

NextMessages == Tick \/ ProcessUserMessage

SpecMessages == InitMessages /\ [][NextMessages]_vars

\* ------------------------------------------------------------------------
\* EmotionService of the backend (emotion_service.py); client stands for
\* self.client of the service, ret for the call and what it returned
\* ------------------------------------------------------------------------
\* is_valid_emotion and get_valence_arousal of app.services.emotion_config,
\* a module that is not among the sources: a label is valid when it is one
\* of the 8 categories
service_is_valid_emotion(v) == v.tag = "str" /\ v.s \in EMOTION_CATEGORIES

service_get_valence_arousal(emotion) == get_valence_arousal(emotion)

\* EmotionService._get_neutral_emotion
service_get_neutral_emotion(t) ==
    [emotion |-> "neutral", confidence |-> 100, intensity |-> 50,
     valence |-> 0, arousal |-> 50, reasoning |-> "Default neutral emotion",
     detected_at |-> t]

\* mutant: the label of the answer is returned as it came
parse_emotion_response_unvalidated(response_text, t) ==
    IF parse_failed(response_text)
    THEN service_get_neutral_emotion(t)
    ELSE LET data == unfence(response_text)[1].doc.fields
             raw == dict_get(data, "emotion", Str("neutral"))
             emotion == IF raw.tag = "str" THEN raw.s ELSE "neutral"
             va == service_get_valence_arousal(emotion)
         IN  [emotion |-> emotion,
              confidence |-> dict_get(data, "confidence", Num(50)).n,
              intensity |-> dict_get(data, "intensity", Num(50)).n,
              valence |-> va.valence,
              arousal |-> va.arousal,
              reasoning |-> dict_get(data, "reasoning", Str("")).s,
              detected_at |-> t]

\* EmotionService._parse_emotion_response: both except branches return the
\* neutral result
parse_emotion_response(response_text, t) ==
    IF parse_failed(response_text)
    THEN service_get_neutral_emotion(t)
    ELSE LET data == unfence(response_text)[1].doc.fields
             raw == dict_get(data, "emotion", Str("neutral"))
             emotion == IF service_is_valid_emotion(raw) THEN raw.s ELSE "neutral"
             va == service_get_valence_arousal(emotion)
         IN  [emotion |-> emotion,
              confidence |-> dict_get(data, "confidence", Num(50)).n,
              intensity |-> dict_get(data, "intensity", Num(50)).n,
              valence |-> va.valence,
              arousal |-> va.arousal,
              reasoning |-> dict_get(data, "reasoning", Str("")).s,
              detected_at |-> t]

\* an answer that is a JSON array, answers with a reasoning, without a
\* label, with a label that is null
ArrayAnswer == <<JsonLine(Array)>>

Reasoned ==
    <<FenceLine,
      JsonLine(Object([emotion |-> Str("angry"), confidence |-> Num(70),
                       intensity |-> Num(90), reasoning |-> Str("shouting")])),
      FenceLine>>

ServiceOutcomes ==
    RemoteOutcomes \cup
    { [raises |-> FALSE, text |-> r] :
        r \in {MissingLabel, NullLabel, ArrayAnswer, Reasoned} }

\* which return statement of analyze_text_sentiment a call reaches
service_path(configured, outcome) ==
    IF ~configured THEN "service_noclient"
    ELSE IF outcome.raises THEN "service_error"
    ELSE "service_ok"

\* what analyze_text_sentiment returns
service_returned(configured, outcome, t) ==
    IF service_path(configured, outcome) = "service_ok"
    THEN parse_emotion_response(outcome.text, t)
    ELSE service_get_neutral_emotion(t)

\* await service.analyze_text_sentiment(text)
analyze_text_sentiment(c, text, outcome) ==
    /\ c \in sessions
    /\ ret' = [path |-> service_path(client[c], outcome), conv |-> c,
               returned |-> <<service_returned(client[c], outcome, now)>>,
               text |-> text, force |-> FALSE, t |-> now,
               response |-> IF client[c] THEN outcome ELSE NoOutcome]
    /\ UNCHANGED <<now, sessions, detector, history, conversation, inflight>>

\* EmotionService.__init__, with and without GOOGLE_API_KEY
InitService ==
    /\ InitSessions({"c1"}, BOOLEAN, {RATE_LIMIT_CALLS})
    /\ InitHandlers({"teacher"}, {FALSE})

AnalyzeTextSentiment ==
    \E c \in Convs, text \in Texts, outcome \in ServiceOutcomes :
        analyze_text_sentiment(c, text, outcome)

NextService == Tick \/ AnalyzeTextSentiment

SpecService == InitService /\ [][NextService]_vars

\* ------------------------------------------------------------------------
\* Statistics: get_stats of the detector, of the adapter and of the session
\* handler, between calls of detect_emotion and get_adapted_instructions
\* ------------------------------------------------------------------------
RECENT_EMOTIONS == 5

\* rate_limiter.calls when EmotionDetector.get_stats is left: the dict is
\* built in the order it is written, len(self.rate_limiter.calls) is read
\* first, then can_call() and time_until_next_call() prune the list
get_stats_calls(c) == pruned_calls(pruned_calls(calls[c], now), now)

\* time_until_next_call raises while the dict is built
get_stats_raises(c) == time_until_next_call_raises(calls[c], max_calls[c], now)

\* the dict EmotionDetector.get_stats returns
detector_stats(c) ==
    [calls_made |-> Len(calls[c]),
     max_calls |-> max_calls[c],
     time_window |-> RATE_LIMIT_WINDOW,
     can_call |-> can_call(calls[c], max_calls[c], now),
     wait_time |-> time_until_next_call(pruned_calls(calls[c], now),
                                        max_calls[c], now),
     size |-> Cardinality(DOMAIN cache[c]),
     ttl |-> EMOTION_CACHE_TTL,
     last_emotion |-> last_emotion[c].emotion,
     last_analysis |-> last_analysis_time[c]]

\* the dict PersonalityAdapter.get_stats returns
adapter_stats(c) ==
    LET recent == last_entries(emotion_history[c], RECENT_EMOTIONS) IN
    [agent_type |-> agent_type[c],
     current_emotion |-> current_emotion[c],
     dominant_emotion |-> get_dominant_emotion(emotion_history[c]),
     should_check_in |-> should_check_in(emotion_history[c]),
     emotion_history_length |-> Len(emotion_history[c]),
     recent_emotions |-> [i \in 1..Len(recent) |-> recent[i].emotion]]

StatsCall(path, c, returned) ==
    [path |-> path, conv |-> c, returned |-> returned, text |-> <<>>,
     force |-> FALSE, t |-> now]

\* detector.get_stats()
detector_get_stats(c) ==
    /\ c \in sessions
    /\ calls' = [calls EXCEPT ![c] = get_stats_calls(c)]
    /\ ret' = StatsCall("stats", c,
                        IF get_stats_raises(c) THEN <<>> ELSE <<detector_stats(c)>>)
    /\ UNCHANGED <<now, sessions, client, max_calls, cache, last_analysis_time,
                   last_emotion, history, conversation, inflight>>

\* adapter.get_stats()
adapter_get_stats(c) ==
    /\ c \in sessions
    /\ ret' = StatsCall("adapter_stats", c, <<adapter_stats(c)>>)
    /\ UNCHANGED <<now, sessions, detector, history, conversation, inflight>>

\* handler.get_stats(): the detector's statistics, then the adapter's
get_stats(c) ==
    /\ c \in sessions
    /\ calls' = [calls EXCEPT ![c] = get_stats_calls(c)]
    /\ ret' = StatsCall("session_stats", c,
                        IF get_stats_raises(c) THEN <<>>
                        ELSE <<[agent_type |-> agent_type[c],
                                message_count |-> message_count[c],
                                detector_stats |-> detector_stats(c),
                                adapter_stats |-> adapter_stats(c)]>>)
    /\ UNCHANGED <<now, sessions, client, max_calls, cache, last_analysis_time,
                   last_emotion, history, conversation, inflight>>

InitStats ==
    /\ InitSessions({"c1"}, {TRUE}, MaxCallsConfigs)
    /\ InitHandlers({"teacher"}, {FALSE})

DetectStats ==
    DetectWith({<<"h", "e", "y">>, <<"y", "o", "u">>}, BOOLEAN, {GoodOutcome},
               {0}, FALSE)

AdaptStats == get_adapted_instructions("c1", SadConfident, MaxSelects)

DetectorGetStats == \E c \in sessions : detector_get_stats(c)

AdapterGetStats == \E c \in sessions : adapter_get_stats(c)

GetStats == \E c \in sessions : get_stats(c)

NextStats ==
    \/ Tick
    \/ DetectStats
    \/ AdaptStats
    \/ DetectorGetStats
    \/ AdapterGetStats
    \/ GetStats

SpecStats == InitStats /\ [][NextStats]_vars

\* ------------------------------------------------------------------------
\* Properties
\* ------------------------------------------------------------------------
DetectPaths == {"debounce", "cache", "limited", "raised", "noclient", "ok", "error"}

Min(a, b) == IF a < b THEN a ELSE b

\* C1: every call of detect_emotion returns a result, never raises, and the
\* label of the result is one of the 8 categories.
C1_ReturnsValidLabel ==
    ret.path \in DetectPaths =>
        /\ Len(ret.returned) = 1
        /\ ret.returned[1].emotion \in EMOTION_CATEGORIES

\* C2 as stated: a non-forced call made less than MIN_ANALYSIS_INTERVAL after
\* another non-forced call of the same conversation returns the result that
\* call returned.
C2_CallsWithinIntervalAgree ==
    \A text \in Texts, outcome \in RemoteOutcomes :
        LET c == ret.conv
            path == detect_path(c, text, FALSE, outcome)
        IN  ( /\ ret.path \in {"debounce", "cache", "limited", "ok"}
              /\ ~ret.force
              /\ now - ret.t < MIN_ANALYSIS_INTERVAL
              /\ path \in {"debounce", "cache", "limited", "ok"} )
            => detect_returned(c, text, FALSE, outcome, 0) = ret.returned

\* C2 amended: a non-forced call made less than MIN_ANALYSIS_INTERVAL after
\* the last successful analysis of its conversation returns the result of
\* that analysis, whatever its text; so do the analysis itself and every
\* other such call.
C2_DebouncedCallsReturnLastAnalysis ==
    \A c \in sessions :
        analysed[c] # <<>> =>
            LET a == analysed[c][1] IN
            /\ now - a.t < MIN_ANALYSIS_INTERVAL =>
                  \A text \in Texts, outcome \in RemoteOutcomes,
                     dt \in 0..MaxRemoteDelay :
                      detect_returned(c, text, FALSE, outcome, dt) = <<a.emotion>>
            /\ ( /\ ret.path \in DetectPaths
                 /\ ret.conv = c
                 /\ \/ ret.path = "ok"
                    \/ ~ret.force /\ ret.t >= a.t
                                  /\ ret.t - a.t < MIN_ANALYSIS_INTERVAL )
               => ret.returned = <<a.emotion>>

\* a debounced call with a text that was never analysed returned the result
\* of the last analysis
C2_Witness ==
    /\ ret.path = "debounce"
    /\ ret.text = <<"y", "o", "u">>
    /\ <<"y", "o", "u">> \notin DOMAIN cache[ret.conv]
    /\ analysed[ret.conv] # <<>>
    /\ ret.returned = <<analysed[ret.conv][1].emotion>>
    /\ ret.returned[1].emotion = "happy"

\* C3: of K > max_calls forced calls with distinct texts made within one
\* window, the classifier succeeding each time, exactly max_calls invoke
\* the remote classifier and each other returns the last-known result.
C3_BurstIsLimited ==
    \A c \in sessions :
        (burst[c].alive /\ burst[c].n > 0) =>
            /\ burst[c].remote = Min(burst[c].n, max_calls[c])
            /\ burst[c].n > max_calls[c] => ret.returned = <<last_emotion[c]>>

C5_SameNormalizedTextHitsCache ==
    /\ \A c \in sessions, text \in Texts, force \in BOOLEAN :
          (~debounced(c, force) /\ KeyOf[text] \in DOMAIN fresh[c]) =>
              /\ ~invokes_remote(c, text, force)
              /\ detect_path(c, text, force, NoOutcome) = "cache"
              /\ detect_returned(c, text, force, NoOutcome, 0)
                    = <<fresh[c][KeyOf[text]].emotion>>
              /\ detect_calls(c, text, force, NoOutcome, 0) = calls[c]
    /\ (ret.path = "cache" /\ ret.t = now) =>
          /\ KeyOf[ret.text] \in DOMAIN fresh[ret.conv]
          /\ ret.returned = <<fresh[ret.conv][KeyOf[ret.text]].emotion>>

\* a call hit the entry that a call with another spelling of the text stored
C5_Witness ==
    /\ ret.path = "cache"
    /\ ret.t = now
    /\ fresh[ret.conv][KeyOf[ret.text]].text # ret.text
    /\ calls[ret.conv] # <<>>

\* C6: a result cached by a call of one conversation is served to a call
\* of another conversation with the same normalized text within TTL, which
\* consumes no slot of the limiter.
C6_CacheServesOtherConversation ==
    \A c1 \in sessions, c2 \in sessions, text \in Texts :
        (c1 # c2 /\ KeyOf[text] \in DOMAIN fresh[c1] /\ ~debounced(c2, FALSE)) =>
            /\ detect_path(c2, text, FALSE, GoodOutcome) = "cache"
            /\ detect_returned(c2, text, FALSE, GoodOutcome, 0)
                  = <<fresh[c1][KeyOf[text]].emotion>>
            /\ detect_calls(c2, text, FALSE, GoodOutcome, 0) = calls[c2]

\* C7: EmotionCache.get never returns an entry put more than TTL ago; a get
\* of such an entry returns nothing and removes it.
C7_GetNeverServesExpired ==
    \A c \in sessions :
        /\ \A k \in DOMAIN cache[c] :
              cache_hit(cache[c], k, now) =>
                  /\ k \in DOMAIN fresh[c]
                  /\ fresh[c][k].emotion = cache[c][k].emotion
        /\ \A k \in DOMAIN cache[c] \ DOMAIN fresh[c] :
              /\ ~cache_hit(cache[c], k, now)
              /\ k \notin DOMAIN cache_after_get(cache[c], k, now)
        /\ (ret.conv = c /\ ret.path = "get_hit" /\ ret.t = now) =>
              /\ ret.text \in DOMAIN fresh[c]
              /\ ret.returned = <<fresh[c][ret.text].emotion>>
        /\ (ret.conv = c /\ ret.path = "get_expired") =>
              /\ ret.returned = <<>>
              /\ ret.text \notin DOMAIN cache[c]

\* a get found an entry older than TTL
C7_Witness == ret.path = "get_expired"

\* C8: a response that cannot be parsed makes the call a failure: it
\* returns the last-known result and leaves last_emotion,
\* last_analysis_time and the cache without a default value.
C8_UnparsableResponseIsFailure ==
    \A c \in sessions, text \in Texts, force \in BOOLEAN,
       response \in {NotJson, NonNumeric} :
        LET outcome == [raises |-> FALSE, text |-> response]
            after == detect_cache(c, text, force, outcome, 0)
        IN  (invokes_remote(c, text, force) /\ analysed[c] # <<>>) =>
                /\ detect_returned(c, text, force, outcome, 0) = <<last_emotion[c]>>
                /\ detect_last_emotion(c, text, force, outcome, 0) = last_emotion[c]
                /\ detect_last_analysis_time(c, text, force, outcome, 0)
                      = last_analysis_time[c]
                /\ \A k \in DOMAIN after : k \in DOMAIN cache[c] /\ after[k] = cache[c][k]

\* C9 as stated: when the remote call raises, the call returns the
\* last-known result and last_emotion, last_analysis_time, the cache and the
\* calls of the limiter are as before the call.
C9_FailureLeavesEverything ==
    \A c \in sessions, text \in Texts, force \in BOOLEAN, dt \in 0..MaxRemoteDelay :
        invokes_remote(c, text, force) =>
            /\ detect_returned(c, text, force, NoOutcome, dt) = <<last_emotion[c]>>
            /\ detect_last_emotion(c, text, force, NoOutcome, dt) = last_emotion[c]
            /\ detect_last_analysis_time(c, text, force, NoOutcome, dt)
                  = last_analysis_time[c]
            /\ detect_cache(c, text, force, NoOutcome, dt) = cache[c]
            /\ detect_calls(c, text, force, NoOutcome, dt) = calls[c]

\* C9 amended: when the remote call raises, the call returns the last-known
\* result, last_emotion and last_analysis_time are as before, nothing is
\* put into the cache and no call is recorded; only the expired entry of the
\* text and the calls older than the window are dropped.
C9_FailureAddsNothing ==
    /\ \A c \in sessions, text \in Texts, force \in BOOLEAN, dt \in 0..MaxRemoteDelay :
          LET after == detect_cache(c, text, force, NoOutcome, dt) IN
          invokes_remote(c, text, force) =>
              /\ detect_returned(c, text, force, NoOutcome, dt) = <<last_emotion[c]>>
              /\ detect_last_emotion(c, text, force, NoOutcome, dt) = last_emotion[c]
              /\ detect_last_analysis_time(c, text, force, NoOutcome, dt)
                    = last_analysis_time[c]
              /\ \A k \in DOMAIN after : k \in DOMAIN cache[c] /\ after[k] = cache[c][k]
              /\ \A k \in DOMAIN cache[c] \ DOMAIN after :
                    /\ k = KeyOf[text]
                    /\ now - cache[c][k].timestamp > EMOTION_CACHE_TTL
              /\ detect_calls(c, text, force, NoOutcome, dt)
                    = SelectSeq(calls[c], LAMBDA x : now - x < RATE_LIMIT_WINDOW)
    /\ ret.path = "error" => ret.returned = <<last_emotion[ret.conv]>>

\* a remote call raised after an analysis had succeeded, and the call
\* returned the result of that analysis
C9_Witness ==
    /\ ret.path = "error"
    /\ analysed[ret.conv] # <<>>
    /\ ret.returned = <<analysed[ret.conv][1].emotion>>
    /\ ret.returned[1].emotion = "happy"

\* C10: every result detect_emotion returns has confidence and intensity
\* in [0,1].
C10_ReturnedNumbersInRange ==
    (ret.path \in DetectPaths /\ ret.returned # <<>>) =>
        /\ ret.returned[1].confidence \in 0..100
        /\ ret.returned[1].intensity \in 0..100

\* the valence and the arousal of a result are those of the table for its
\* label
TableAgrees(r) ==
    /\ r.emotion \in DOMAIN EMOTION_VALENCE_AROUSAL
    /\ r.valence = EMOTION_VALENCE_AROUSAL[r.emotion].valence
    /\ r.arousal = EMOTION_VALENCE_AROUSAL[r.emotion].arousal

\* C11: in every result detect_emotion returns, keeps as last_emotion or
\* caches, valence and arousal are the values of the table for the label of
\* the result; a response with each of the 8 labels is given the values of
\* that label, and a response whose label is outside the 8 categories,
\* missing or null is given the label neutral, valence 0.0 and arousal 0.5.
C11_ValenceArousalFromTable ==
    /\ (ret.path \in DetectPaths /\ ret.returned # <<>>) => TableAgrees(ret.returned[1])
    /\ \A c \in sessions :
          /\ TableAgrees(last_emotion[c])
          /\ \A k \in DOMAIN cache[c] : TableAgrees(cache[c][k].emotion)
    /\ \A e \in EMOTION_CATEGORIES :
          LET r == parse_response(<<JsonLine(Object([emotion |-> Str(e)]))>>, now)
          IN  r.emotion = e /\ TableAgrees(r)
    /\ \A response \in {UnknownLabel, MissingLabel, NullLabel} :
          LET r == parse_response(response, now)
          IN  r.emotion = "neutral" /\ r.valence = 0 /\ r.arousal = 50

\* a call returned the parse of a response with a label outside the
\* categories
C11_Witness ==
    /\ ret.path = "ok"
    /\ ret.returned[1].intensity = 30
    /\ ret.returned[1].emotion = "neutral"
    /\ ret.returned[1].valence = 0
    /\ ret.returned[1].arousal = 50

\* the canonical neutral result
IsCanonicalNeutral(r) ==
    /\ r.emotion = "neutral"
    /\ r.confidence = 100
    /\ r.intensity = 50
    /\ r.valence = 0
    /\ r.arousal = 50

\* C12: a detector without a client returns the canonical neutral result
\* from every call that passes the interval check, the cache and the
\* limiter; it never records a call, never stores anything in the cache and
\* never changes last_analysis_time.
C12_NoClientReturnsNeutral ==
    \A c \in sessions :
        ~client[c] =>
            /\ calls[c] = <<>>
            /\ cache[c] = EmptyCache
            /\ last_analysis_time[c] = 0
            /\ \A text \in Texts, force \in BOOLEAN :
                  ( /\ ~debounced(c, force)
                    /\ ~cache_hit(cache[c], text_hash(text), now)
                    /\ can_call(calls[c], max_calls[c], now) )
                  => /\ ~invokes_remote(c, text, force)
                     /\ Len(detect_returned(c, text, force, NoOutcome, 0)) = 1
                     /\ IsCanonicalNeutral(detect_returned(c, text, force, NoOutcome, 0)[1])
            /\ (ret.path \in DetectPaths /\ ret.conv = c /\ ret.returned # <<>>)
                  => IsCanonicalNeutral(ret.returned[1])

\* a forced call of a detector without a client returned the neutral result
C12_Witness ==
    /\ ret.path = "noclient"
    /\ ret.force
    /\ ~client[ret.conv]
    /\ max_calls[ret.conv] > 0
    /\ IsCanonicalNeutral(ret.returned[1])

\* C13: for every max_calls >= 0, a call the limiter denies returns the
\* last-known result, without raising and without calling the remote
\* classifier, also when no call is recorded.
C13_DeniedCallReturnsLastKnown ==
    \A c \in sessions, text \in Texts, force \in BOOLEAN :
        ( /\ ~debounced(c, force)
          /\ ~cache_hit(cache[c], text_hash(text), now)
          /\ ~can_call(calls[c], max_calls[c], now) )
        => /\ ~invokes_remote(c, text, force)
           /\ detect_returned(c, text, force, NoOutcome, 0) = <<last_emotion[c]>>

C15_MessagesProcessedInOrder ==
    \A c \in sessions :
        /\ \A i \in 1..Len(storing[c]) : storing[c][i].n = message_count[c]
        /\ \A i, j \in 1..Len(appended[c]) :
              i < j => appended[c][i].n < appended[c][j].n

\* C16: the emotion history never has more than 10 entries, and after n
\* appends it is the last min(n, 10) appended entries, in the order in which
\* they were appended.
C16_HistoryKeepsLastTen ==
    \A c \in sessions :
        LET n == Len(appended[c])
            kept == IF n < 10 THEN n ELSE 10
        IN  /\ Len(emotion_history[c]) <= 10
            /\ Len(emotion_history[c]) = kept
            /\ \A i \in 1..kept :
                  emotion_history[c][i] = appended[c][n - kept + i].entry

\* an eleventh entry was appended and the oldest one is gone
C16_Witness ==
    /\ Len(appended["c1"]) = 11
    /\ Len(emotion_history["c1"]) = 10
    /\ appended["c1"][1].entry.emotion # appended["c1"][2].entry.emotion
    /\ emotion_history["c1"][1] = appended["c1"][2].entry
    /\ adapted.passed

\* C17: the result of every message that has been processed is appended to
\* the history, and becomes current_emotion, whatever its label and its
\* confidence are.
C17_EveryResultRecorded ==
    \A c \in sessions :
        /\ Len(appended[c]) + Len(storing[c]) = message_count[c]
        /\ ( /\ storing[c] = <<>>
             /\ message_count[c] > 0
             /\ ret.conv = c
             /\ ret.path \in DetectPaths
             /\ ret.returned # <<>> )
           => /\ emotion_history[c] # <<>>
              /\ emotion_history[c][Len(emotion_history[c])]
                    = history_entry(ret.returned[1])
              /\ current_emotion[c] = ret.returned[1].emotion

\* C18: get_dominant_emotion returns neutral for an empty history;
\* otherwise it returns the label with the highest count among the last 5
\* entries, and among several labels of the highest count the one that
\* occurs first within those entries; [happy, sad, happy, sad] gives happy.
C18_DominantIsFirstMostFrequent ==
    /\ \A c \in sessions :
          LET h == emotion_history[c]
              n == Len(h)
              first == IF n > 5 THEN n - 4 ELSE 1
              Count(e) == Cardinality({i \in first..n : h[i].emotion = e})
              FirstAt(e) == CHOOSE i \in first..n :
                                /\ h[i].emotion = e
                                /\ \A j \in first..(i - 1) : h[j].emotion # e
              d == get_dominant_emotion(h)
          IN  IF n = 0 THEN d = "neutral"
              ELSE /\ \E i \in first..n : h[i].emotion = d
                   /\ \A e \in {h[i].emotion : i \in first..n} :
                         /\ Count(e) <= Count(d)
                         /\ (Count(e) = Count(d) /\ e # d) => FirstAt(d) < FirstAt(e)
    /\ get_dominant_emotion(<<>>) = "neutral"
    /\ get_dominant_emotion(<<history_entry(HappyAtThreshold), history_entry(SadConfident),
                              history_entry(HappyAtThreshold), history_entry(SadConfident)>>)
          = "happy"

\* the history is [happy, sad, happy, sad] and happy is dominant
C18_Witness ==
    /\ Len(emotion_history["c1"]) = 4
    /\ [i \in 1..4 |-> emotion_history["c1"][i].emotion] = <<"happy", "sad", "happy", "sad">>
    /\ get_dominant_emotion(emotion_history["c1"]) = "happy"

\* C19: should_check_in is true exactly when the history has at least 3
\* entries and the labels of its last 3 entries are all among sad,
\* frustrated, angry and anxious; after an entry with another label has been
\* recorded it is false.
C19_CheckInIffLastThreeNegative ==
    /\ \A c \in sessions :
          LET h == emotion_history[c]
              n == Len(h)
          IN  should_check_in(h) <=>
                  ( /\ n >= 3
                    /\ \A i \in (n - 2)..n :
                          h[i].emotion \in {"sad", "frustrated", "angry", "anxious"} )
    /\ ( /\ adapted.passed
         /\ adapted.emotion_data.emotion \notin {"sad", "frustrated", "angry", "anxious"} )
       => ~should_check_in(emotion_history[adapted.conv])

\* three sad entries were followed by a happy one, and should_check_in is
\* false
C19_Witness ==
    LET h == emotion_history["c1"]
        n == Len(h)
    IN  /\ n >= 4
        /\ adapted.passed
        /\ adapted.emotion_data.emotion = "happy"
        /\ h[n].emotion = "happy"
        /\ \A i \in (n - 3)..(n - 1) : h[i].emotion = "sad"
        /\ should_check_in(SubSeq(h, 1, n - 1))
        /\ ~should_check_in(h)

\* C20: adapt_instructions returns the base instructions unchanged when the
\* confidence is strictly below the threshold, and when there is no template
\* for the label (a persona or a label that is not in the table), also at a
\* confidence at or above the threshold.
C20_BaseInstructionsUnchanged ==
    /\ \A persona \in Personas \cup {"stranger"},
          emotion \in EMOTION_CATEGORIES \cup {"bored"},
          confidence \in {0, CONFIDENCE_THRESHOLD - 1, CONFIDENCE_THRESHOLD, 100} :
          ( \/ confidence < CONFIDENCE_THRESHOLD
            \/ persona \notin {"teacher", "consultant", "coach", "friend"}
            \/ emotion \notin EMOTION_CATEGORIES )
          => adapt_returned(persona, BaseInstructions, EmotionData(emotion, confidence),
                            CONFIDENCE_THRESHOLD) = BaseInstructions
    /\ ( /\ adapted.returned # <<>>
         /\ \/ adapted.emotion_data.confidence < CONFIDENCE_THRESHOLD
            \/ agent_type[adapted.conv] \notin {"teacher", "consultant", "coach", "friend"}
            \/ adapted.emotion_data.emotion \notin EMOTION_CATEGORIES )
       => adapted.returned = BaseInstructions

\* a confident result with a label that has no template was recorded, and
\* the base instructions came back
C20_Witness ==
    /\ adapted.passed
    /\ adapted.emotion_data.emotion = "bored"
    /\ agent_type[adapted.conv] = "teacher"
    /\ current_emotion[adapted.conv] = "bored"
    /\ adapted.returned = BaseInstructions

\* C21: at a confidence at or above the threshold, equality included, and
\* with a template for the label, adapt_instructions returns the base
\* instructions followed by one block that holds the label, the confidence
\* as a percentage and the text of the template; the result begins with the
\* base instructions and is longer.
C21_DirectiveAppended ==
    /\ \A persona \in {"teacher", "consultant", "coach", "friend"},
          emotion \in EMOTION_CATEGORIES,
          confidence \in {CONFIDENCE_THRESHOLD, CONFIDENCE_THRESHOLD + 1, 100} :
          LET out == adapt_returned(persona, BaseInstructions,
                                    EmotionData(emotion, confidence), CONFIDENCE_THRESHOLD)
          IN  /\ Len(out) = Len(BaseInstructions) + 1
              /\ SubSeq(out, 1, Len(BaseInstructions)) = BaseInstructions
              /\ out[Len(out)].kind = "directive"
              /\ out[Len(out)].label = upper(emotion)
              /\ out[Len(out)].percent = confidence
              /\ out[Len(out)].text = EMOTION_ADAPTATIONS[persona][emotion]
    /\ ( /\ adapted.returned # <<>>
         /\ adapted.emotion_data.confidence >= CONFIDENCE_THRESHOLD
         /\ agent_type[adapted.conv] \in {"teacher", "consultant", "coach", "friend"}
         /\ adapted.emotion_data.emotion \in EMOTION_CATEGORIES )
       => /\ Len(adapted.returned) = Len(BaseInstructions) + 1
          /\ SubSeq(adapted.returned, 1, Len(BaseInstructions)) = BaseInstructions
          /\ adapted.returned[Len(adapted.returned)] =
                [kind |-> "directive",
                 label |-> upper(adapted.emotion_data.emotion),
                 percent |-> adapted.emotion_data.confidence,
                 text |-> <<agent_type[adapted.conv], adapted.emotion_data.emotion>>]

\* a result with a confidence equal to the threshold got its block
C21_Witness ==
    /\ adapted.emotion_data = HappyAtThreshold
    /\ agent_type[adapted.conv] = "coach"
    /\ Len(adapted.returned) = 2
    /\ adapted.returned[2].label = "HAPPY"
    /\ adapted.returned[2].percent = 60
    /\ adapted.returned[2].text = <<"coach", "happy">>

\* C22: a call of adapt_instructions leaves the history, current_emotion,
\* the dominant emotion and should_check_in as they were before the call.
C22_AdaptHasNoSideEffects ==
    \A c \in sessions,
       emotion_data \in {HappyAtThreshold, SadConfident, SadBelowThreshold} :
        LET h == adapt_history(emotion_history[c], emotion_data, CONFIDENCE_THRESHOLD)
        IN  /\ h = emotion_history[c]
            /\ adapt_current_emotion(current_emotion[c], emotion_data,
                                     CONFIDENCE_THRESHOLD) = current_emotion[c]
            /\ get_dominant_emotion(h) = get_dominant_emotion(emotion_history[c])
            /\ should_check_in(h) = should_check_in(emotion_history[c])

\* C23: a call of adapt_instructions returns what the first call with the
\* same persona, base instructions, result and threshold returned, whatever
\* the history is at each of the calls and whatever was called in between.
C23_SameInputsSameInstructions ==
    adapted.returned # <<>> =>
        /\ adapted.emotion_data \in DOMAIN selected
        /\ adapted.returned = selected[adapted.emotion_data].returned

\* a result was handed over again after other results had been recorded,
\* and the same adapted instructions came back
C23_Witness ==
    /\ adapted.passed
    /\ adapted.emotion_data = HappyAtThreshold
    /\ Len(appended[adapted.conv]) >= selected[adapted.emotion_data].at + 3
    /\ \E i \in 1..Len(emotion_history[adapted.conv]) :
          emotion_history[adapted.conv][i].emotion = "sad"
    /\ Len(adapted.returned) = 2
    /\ adapted.returned = selected[adapted.emotion_data].returned

\* C24: get_stats of the detector leaves the calls the limiter has recorded
\* as they were before the read (the cache, last_emotion, last_analysis_time
\* and the history of the adapter are not assigned by any get_stats).
C24_StatsChangeNoState ==
    \A c \in sessions : get_stats_calls(c) = calls[c]

\* C25: between operations every call the limiter retains is younger than
\* RATE_LIMIT_WINDOW, and calls_made of the statistics counts no call that
\* has aged out of the window.
C25_RetainedCallsWithinWindow ==
    \A c \in sessions :
        /\ \A i \in 1..Len(calls[c]) : now - calls[c][i] < RATE_LIMIT_WINDOW
        /\ ~get_stats_raises(c) =>
              detector_stats(c).calls_made = Len(pruned_calls(calls[c], now))

\* the number of recorded calls made less than RATE_LIMIT_WINDOW before t
YoungCalls(cs, t) ==
    Cardinality({i \in 1..Len(cs) : t - cs[i] < RATE_LIMIT_WINDOW})

StatsReturned ==
    ret.path = "stats" /\ ret.t = now /\ ret.returned # <<>>

\* C26: can_call is true exactly when fewer than max_calls recorded calls
\* are younger than RATE_LIMIT_WINDOW, now and at every later time; a call
\* recorded exactly RATE_LIMIT_WINDOW ago is not counted.
C26_AdmissionCountsYoungCalls ==
    \A c \in sessions :
        /\ \A t \in now..(StartTime + Horizon + RATE_LIMIT_WINDOW) :
              can_call(calls[c], max_calls[c], t)
                  <=> YoungCalls(calls[c], t) < max_calls[c]
        /\ \A i \in 1..Len(calls[c]) :
              calls[c][i] \notin
                  { pruned_calls(calls[c], calls[c][i] + RATE_LIMIT_WINDOW)[j] :
                      j \in 1..Len(pruned_calls(calls[c], calls[c][i] + RATE_LIMIT_WINDOW)) }
        /\ (StatsReturned /\ ret.conv = c) =>
              (ret.returned[1].can_call
                  <=> YoungCalls(calls[c], now) < max_calls[c])
        /\ (ret.path = "limited" /\ ret.t = now /\ ret.conv = c) =>
              YoungCalls(calls[c], now) >= max_calls[c]

\* with max_calls = 1 the only recorded call was made exactly
\* RATE_LIMIT_WINDOW ago, and can_call of the statistics was true
C26_Witness ==
    /\ StatsReturned
    /\ max_calls[ret.conv] = 1
    /\ ret.returned[1].calls_made = 1
    /\ ret.returned[1].can_call
    /\ last_analysis_time[ret.conv] = now - RATE_LIMIT_WINDOW

\* C27: can_call records nothing: after any number of checks at one time
\* the calls that count are the same, a later check gives the result it would
\* have given without them, and record_call adds one call that counts.
C27_CheckConsumesNoSlot ==
    \A c \in sessions :
        LET once == pruned_calls(calls[c], now)
            twice == pruned_calls(once, now)
        IN  /\ twice = once
            /\ YoungCalls(once, now) = YoungCalls(calls[c], now)
            /\ \A t \in now..(StartTime + Horizon + RATE_LIMIT_WINDOW) :
                  /\ can_call(once, max_calls[c], t)
                        = can_call(calls[c], max_calls[c], t)
                  /\ can_call(twice, max_calls[c], t)
                        = can_call(calls[c], max_calls[c], t)
            /\ YoungCalls(record_call(once, now), now) = YoungCalls(once, now) + 1
            /\ (StatsReturned /\ ret.conv = c) =>
                  can_call(calls[c], max_calls[c], now) = ret.returned[1].can_call

\* get_stats has checked twice while one slot was free, and the slot is
\* still free
C27_Witness ==
    /\ StatsReturned
    /\ max_calls[ret.conv] = RATE_LIMIT_CALLS
    /\ YoungCalls(calls[ret.conv], now) = RATE_LIMIT_CALLS - 1
    /\ ret.returned[1].can_call
    /\ can_call(calls[ret.conv], max_calls[ret.conv], now)

\* C28: a call that is not forced and is made less than
\* MIN_ANALYSIS_INTERVAL after the last successful analysis returns
\* last_emotion and leaves the cache, the calls of the limiter, last_emotion
\* and last_analysis_time as they are, without a remote call.
C28_DebouncedCallTouchesNothing ==
    /\ \A c \in sessions, text \in Texts :
          (now - last_analysis_time[c] < MIN_ANALYSIS_INTERVAL) =>
              /\ detect_path(c, text, FALSE, NoOutcome) = "debounce"
              /\ ~invokes_remote(c, text, FALSE)
              /\ detect_returned(c, text, FALSE, NoOutcome, 0) = <<last_emotion[c]>>
              /\ detect_cache(c, text, FALSE, NoOutcome, 0) = cache[c]
              /\ detect_calls(c, text, FALSE, NoOutcome, 0) = calls[c]
              /\ detect_last_emotion(c, text, FALSE, NoOutcome, 0) = last_emotion[c]
              /\ detect_last_analysis_time(c, text, FALSE, NoOutcome, 0)
                    = last_analysis_time[c]
    /\ (ret.path = "debounce" /\ ret.t = now) =>
          /\ ~ret.force
          /\ now - last_analysis_time[ret.conv] < MIN_ANALYSIS_INTERVAL
          /\ ret.returned = <<last_emotion[ret.conv]>>

\* a debounced call for a text whose cache entry has expired, made while
\* the limiter holds a call that has aged out: both are still there
C28_Witness ==
    /\ ret.path = "debounce"
    /\ ret.t = now
    /\ text_hash(ret.text) \in DOMAIN cache[ret.conv]
    /\ cache_expired(cache[ret.conv][text_hash(ret.text)], now)
    /\ \E i \in 1..Len(calls[ret.conv]) :
          now - calls[ret.conv][i] >= RATE_LIMIT_WINDOW

\* detect_emotion has just returned from a successful analysis of session c
JustAnalysed(c) ==
    /\ ret.path = "ok"
    /\ ret.conv = c
    /\ analysed[c] # <<>>
    /\ analysed[c][1].t = now

\* C29: when detect_emotion returns from a successful analysis, one call
\* is recorded at the time of the return, last_emotion is the returned
\* result, last_analysis_time is the current time and the cache holds the
\* result under the hash of the text; a call that is not forced and comes
\* at once returns the same result.
C29_SuccessUpdatesBeforeReturn ==
    /\ \A c \in sessions, text \in Texts, force \in BOOLEAN,
          dt \in 0..MaxRemoteDelay :
          detect_path(c, text, force, GoodOutcome) = "ok" =>
              detect_calls(c, text, force, GoodOutcome, dt)
                  = Append(pruned_calls(calls[c], now), now + dt)
    /\ \A c \in sessions :
          JustAnalysed(c) =>
              /\ calls[c] # <<>>
              /\ calls[c][Len(calls[c])] = now
              /\ last_emotion[c] = ret.returned[1]
              /\ last_analysis_time[c] = now
              /\ text_hash(ret.text) \in DOMAIN cache[c]
              /\ cache[c][text_hash(ret.text)]
                    = [emotion |-> ret.returned[1], timestamp |-> now]
              /\ \A text \in Texts :
                    detect_returned(c, text, FALSE, NoOutcome, 0) = ret.returned

\* an analysis that took a second has returned a result that is not neutral
C29_Witness ==
    \E c \in sessions :
        /\ JustAnalysed(c)
        /\ ret.t < now
        /\ ret.returned[1].emotion # "neutral"
        /\ last_emotion[c] = ret.returned[1]
        /\ Len(calls[c]) = RATE_LIMIT_CALLS

\* C30: time_until_next_call is 0 when can_call is true; when can_call is
\* false with max_calls >= 1 it is some d with 0 < d <= RATE_LIMIT_WINDOW,
\* and with no call recorded in between can_call is true d seconds later.
C30_WaitTimeUntilAdmission ==
    \A c \in sessions :
        /\ can_call(calls[c], max_calls[c], now) =>
              time_until_next_call(calls[c], max_calls[c], now) = 0
        /\ (~can_call(calls[c], max_calls[c], now) /\ max_calls[c] >= 1) =>
              LET d == time_until_next_call(calls[c], max_calls[c], now) IN
              /\ 0 < d
              /\ d <= RATE_LIMIT_WINDOW
              /\ can_call(pruned_calls(calls[c], now), max_calls[c], now + d)
        /\ (StatsReturned /\ ret.conv = c) =>
              LET r == ret.returned[1] IN
              /\ r.can_call => r.wait_time = 0
              /\ ~r.can_call =>
                    /\ 0 < r.wait_time
                    /\ r.wait_time <= RATE_LIMIT_WINDOW
                    /\ can_call(calls[c], max_calls[c], now + r.wait_time)

\* the statistics of a limiter that is full, its two calls made at
\* different times: the wait is what is left of the window of the older one
C30_Witness ==
    /\ StatsReturned
    /\ ~ret.returned[1].can_call
    /\ Len(calls[ret.conv]) = RATE_LIMIT_CALLS
    /\ calls[ret.conv][1] < calls[ret.conv][RATE_LIMIT_CALLS]
    /\ ret.returned[1].wait_time = RATE_LIMIT_WINDOW - (now - calls[ret.conv][1])
    /\ ret.returned[1].wait_time < RATE_LIMIT_WINDOW

\* C31: a forced call made less than MIN_ANALYSIS_INTERVAL after the last
\* successful analysis returns the cached result without a remote call when
\* the text is cached and fresh, returns last_emotion when the limiter denies
\* the call, and calls the classifier only when neither is the case.
C31_ForceBypassesOnlyDebounce ==
    /\ \A c \in sessions, text \in Texts :
          (now - last_analysis_time[c] < MIN_ANALYSIS_INTERVAL) =>
              LET hit == cache_hit(cache[c], text_hash(text), now)
                  admitted == can_call(calls[c], max_calls[c], now)
              IN  /\ detect_path(c, text, TRUE, NoOutcome) # "debounce"
                  /\ hit =>
                        /\ ~invokes_remote(c, text, TRUE)
                        /\ detect_returned(c, text, TRUE, NoOutcome, 0)
                              = <<cache[c][text_hash(text)].emotion>>
                  /\ (~hit /\ ~admitted) =>
                        /\ ~invokes_remote(c, text, TRUE)
                        /\ detect_returned(c, text, TRUE, NoOutcome, 0)
                              = <<last_emotion[c]>>
                  /\ invokes_remote(c, text, TRUE) => (~hit /\ admitted)
    /\ (ret.force /\ ret.t = now) =>
          /\ ret.path # "debounce"
          /\ ret.path = "cache" =>
                ret.returned = <<cache[ret.conv][text_hash(ret.text)].emotion>>
          /\ ret.path = "limited" =>
                /\ ret.returned = <<last_emotion[ret.conv]>>
                /\ ~can_call(calls[ret.conv], max_calls[ret.conv], now)

\* a forced call within the interval was answered from the cache
C31_Witness ==
    /\ ret.force
    /\ ret.path = "cache"
    /\ ret.t = now
    /\ now - last_analysis_time[ret.conv] < MIN_ANALYSIS_INTERVAL
    /\ ret.returned = <<cache[ret.conv][text_hash(ret.text)].emotion>>
    /\ ret.returned = <<last_emotion[ret.conv]>>

\* C32: when on_user_speech has run to its end for a message, the
\* instructions of the agent are those of the result of that message: the
\* base instructions for a neutral result, a result below the threshold or
\* a label without a template, the base instructions and the block of the
\* result otherwise.
C32_InstructionsFollowLastResult ==
    \A c \in sessions :
        (~store_enabled[c] /\ ret.conv = c /\ ret.path \in DetectPaths
            /\ ret.returned # <<>>) =>
            instructions[c] =
                IF ret.returned[1].emotion = "neutral" THEN BaseInstructions
                ELSE adapt_returned(agent_type[c], BaseInstructions,
                                    ret.returned[1], CONFIDENCE_THRESHOLD)

\* C33: the instructions of the agent are the base instructions, or the
\* base instructions followed by exactly one block, whatever was said
\* before.
C33_AdaptationsNeverAccumulate ==
    \A c \in sessions :
        /\ Len(instructions[c]) \in {Len(BaseInstructions), Len(BaseInstructions) + 1}
        /\ SubSeq(instructions[c], 1, Len(BaseInstructions)) = BaseInstructions
        /\ Len(instructions[c]) > Len(BaseInstructions) =>
              instructions[c][Len(instructions[c])].kind = "directive"
        /\ (adapted.returned # <<>> /\ adapted.conv = c) =>
              Len(adapted.returned) <= Len(BaseInstructions) + 1

\* the instructions were adapted for a second message and carry one block
C33_Witness ==
    \E c \in sessions :
        /\ Len(appended[c]) >= 2
        /\ appended[c][Len(appended[c])].n >= 2
        /\ instructions[c] = adapted.returned
        /\ Len(instructions[c]) = Len(BaseInstructions) + 1

\* C34: when should_check_in is true, the three most recent messages of
\* the session were all recorded with a label of negative_emotions: a
\* message classified neutral or below the threshold in between ends the
\* streak.
C34_CheckInMeansLastThreeNegative ==
    \A c \in sessions :
        should_check_in(emotion_history[c]) =>
            /\ message_count[c] >= CHECK_IN_WINDOW
            /\ Len(appended[c]) >= CHECK_IN_WINDOW
            /\ \A k \in 0..(CHECK_IN_WINDOW - 1) :
                  /\ appended[c][Len(appended[c]) - k].n = message_count[c] - k
                  /\ appended[c][Len(appended[c]) - k].entry.emotion
                        \in negative_emotions

\* C35: EmotionCache.set on a key that has an entry takes the place of the
\* value and starts its age anew: up to EMOTION_CACHE_TTL after the last set
\* a get returns the value of the last set, also when the entry it replaced
\* is older than EMOTION_CACHE_TTL by then.
C35_SetOverwritesAndRestartsAge ==
    \A c \in sessions :
        /\ \A k \in DOMAIN fresh[c] :
              /\ k \in DOMAIN cache[c]
              /\ cache_hit(cache[c], k, now)
              /\ cache[c][k] = [emotion |-> fresh[c][k].emotion,
                                timestamp |-> fresh[c][k].timestamp]
              /\ cache_after_get(cache[c], k, now) = cache[c]
        /\ \A k \in DOMAIN cache[c], outcome \in {GoodOutcome, NoOutcome} :
              LET r2 == parse_response(outcome.text, now)
                  ch == cache_set(cache[c], k, r2, now)
              IN  /\ DOMAIN ch = DOMAIN cache[c]
                  /\ \A t \in now..(now + EMOTION_CACHE_TTL) :
                        cache_hit(ch, k, t) /\ ch[k].emotion = r2
                  /\ ~cache_hit(ch, k, now + EMOTION_CACHE_TTL + 1)
        /\ (ret.conv = c /\ ret.path = "get_hit" /\ ret.t = now) =>
              ret.returned = <<fresh[c][ret.text].emotion>>

\* a get returned the value of the second set of its key at a time when the
\* entry of the first set, another value, was older than EMOTION_CACHE_TTL
C35_Witness ==
    /\ ret.path = "get_hit"
    /\ ret.t = now
    /\ fresh[ret.conv][ret.text].replaced # <<>>
    /\ now - fresh[ret.conv][ret.text].replaced[1].timestamp > EMOTION_CACHE_TTL
    /\ fresh[ret.conv][ret.text].replaced[1].emotion.emotion
          # ret.returned[1].emotion
    /\ ret.returned = <<fresh[ret.conv][ret.text].emotion>>

\* C36: EmotionCache.clear_old removes the entries older than
\* EMOTION_CACHE_TTL, all of them and no other, and leaves the others as
\* they are: a get at any later time returns what it would have returned
\* without the sweep.
C36_SweepRemovesExactlyExpired ==
    \A c \in sessions :
        LET swept == clear_old(cache[c], now) IN
        /\ DOMAIN swept \subseteq DOMAIN cache[c]
        /\ \A k \in DOMAIN cache[c] :
              IF now - cache[c][k].timestamp > EMOTION_CACHE_TTL
              THEN k \notin DOMAIN swept
              ELSE k \in DOMAIN swept /\ swept[k] = cache[c][k]
        /\ \A k \in Keys, t \in now..(now + EMOTION_CACHE_TTL + 1) :
              /\ cache_hit(swept, k, t) = cache_hit(cache[c], k, t)
              /\ cache_hit(swept, k, t) => swept[k].emotion = cache[c][k].emotion
        /\ (ret.conv = c /\ ret.path = "clear_old" /\ ret.t = now) =>
              /\ ret.text \cap DOMAIN cache[c] = {}
              /\ \A k \in DOMAIN cache[c] : ~cache_expired(cache[c][k], now)
              /\ \A k \in DOMAIN fresh[c] :
                    /\ k \in DOMAIN cache[c]
                    /\ cache[c][k].emotion = fresh[c][k].emotion

\* a sweep removed an entry and kept one whose age is exactly
\* EMOTION_CACHE_TTL
C36_Witness ==
    /\ ret.path = "clear_old"
    /\ ret.t = now
    /\ ret.text # {}
    /\ \E k \in DOMAIN cache[ret.conv] :
          now - cache[ret.conv][k].timestamp = EMOTION_CACHE_TTL

\* C37: process_user_message ignores a message that is empty or shorter
\* than 3 characters once trimmed: it returns nothing without a call of the
\* detector and leaves message_count, last_user_message, the detector and
\* the history of the adapter as they are; any other message is processed.
C37_ShortMessageIgnored ==
    /\ [](/\ \A text \in ShortTexts : too_short(text)
          /\ \A text \in Texts : ~too_short(text)
          /\ ret.path = "ignored" =>
                (Len(strip(ret.text)) < 3 /\ ret.returned = <<>>)
          /\ ret.path \in DetectPaths => Len(strip(ret.text)) >= 3)
    /\ [][(ret'.path = "ignored" /\ ret' # ret) =>
              UNCHANGED <<message_count, last_user_message, detector,
                          emotion_history, current_emotion, analysed>>]_vars

\* a message of two characters and a blank was ignored after another message
\* had been processed
C37_Witness ==
    /\ ret.path = "ignored"
    /\ ret.t = now
    /\ ret.text = <<" ", "h", "i">>
    /\ message_count[ret.conv] = 1
    /\ last_user_message[ret.conv] \in Texts
    /\ last_analysis_time[ret.conv] = now

ServicePaths == {"service_noclient", "service_error", "service_ok"}

IsServiceNeutral(r) ==
    r.emotion = "neutral" /\ r.confidence = 100 /\ r.valence = 0

\* C38: analyze_text_sentiment of the backend always returns a result: the
\* neutral result (label neutral, confidence 1.0, valence 0.0) without a
\* client, when the remote call raises and when the answer cannot be
\* parsed, and in every case a result whose label is one of the 8
\* categories.
C38_ServiceAlwaysReturnsValidLabel ==
    /\ \A configured \in BOOLEAN, outcome \in ServiceOutcomes :
          LET r == service_returned(configured, outcome, now) IN
          /\ r.emotion \in EMOTION_CATEGORIES
          /\ (~configured \/ outcome.raises) => IsServiceNeutral(r)
          /\ (~outcome.raises /\ configured
                /\ outcome.text \in {NotJson, NonNumeric, ArrayAnswer}) =>
                IsServiceNeutral(r)
    /\ ret.path \in ServicePaths =>
          /\ Len(ret.returned) = 1
          /\ ret.returned[1].emotion \in EMOTION_CATEGORIES
          /\ ret.path \in {"service_noclient", "service_error"} =>
                IsServiceNeutral(ret.returned[1])
          /\ (ret.path = "service_ok"
                /\ ret.response.text \in {NotJson, NonNumeric, ArrayAnswer}) =>
                IsServiceNeutral(ret.returned[1])

\* the classifier answered with a label outside the categories, and the
\* service returned neutral with the confidence of the answer
C38_Witness ==
    /\ ret.path = "service_ok"
    /\ ret.response.text = UnknownLabel
    /\ ret.returned[1].emotion = "neutral"
    /\ ret.returned[1].confidence = 50

\* C39: current_emotion of a PersonalityAdapter is the label of the last
\* entry of its history, and neutral while the history is empty.
C39_CurrentEmotionIsLastEntry ==
    \A c \in sessions :
        current_emotion[c] =
            IF emotion_history[c] = <<>> THEN "neutral"
            ELSE emotion_history[c][Len(emotion_history[c])].emotion

\* a result below the threshold came after a result with another label had
\* been recorded, and current_emotion is still the label recorded
C39_Witness ==
    /\ ~adapted.passed
    /\ adapted.emotion_data = SadBelowThreshold
    /\ emotion_history[adapted.conv] # <<>>
    /\ current_emotion[adapted.conv] = "happy"
    /\ Len(appended[adapted.conv]) > HISTORY_LIMIT

====
